---- MODULE Spec2Model ----
(***************************************************************************)
(* Content Processor / RAG ingestion pipeline                              *)
(* (scripts/content_processor.py, scripts/db.py).                          *)
(*                                                                         *)
(* The model follows one or two processor processes through main(),        *)
(* process_all_content(), process_single_content_item() and the            *)
(* persistence transaction of _save_to_database().  A source item stands   *)
(* for one (source_type, source_id) pair; its content is abstracted to the *)
(* number of sections and chunks the Section Builder and the Chunker cut   *)
(* from it.  Environment events (a failing database call, a failing        *)
(* embedding call, an unexpected exception, Ctrl+C) are nondeterministic   *)
(* and drawn from a bounded budget.                                        *)
(***************************************************************************)
EXTENDS Integers, Sequences, FiniteSets, TLC

VARIABLES
    source,            \* source records: item id -> [sections, chunks] cut from its content
    db,                \* committed rag_documents / rag_sections / rag_chunks rows
    checkpoint,        \* contents of processing_checkpoint.json
    faultsLeft,        \* remaining budget of environment events
    pc,                \* per process: position in main()
    run,               \* per process: number of the current invocation of main()
    runsLeft,          \* per process: invocations of main() still allowed
    resume,            \* per process: args.resume
    items,             \* per process: content_items (after the resume slice)
    start_index,       \* per process: start_index of process_all_content
    i,                 \* per process: loop index of process_all_content
    stats,             \* per process: ProcessingStats
    stage,             \* per process: stage of every item of content_items in this run
    sections,          \* per process: len(sections) of the item in flight
    chunks,            \* per process: len(chunks) of the item in flight
    embedding,         \* per process: chunk index -> "ok" | "null"
    valid_chunks,      \* per process: chunk indices that passed validate_embeddings
    document_summary,  \* per process: TRUE once generate_document_summary returned
    summary_errors,    \* per process: levels at which a summarization call raised for the item
    session,           \* per process: rows added to the open DatabaseSession
    exc,               \* per process: exception the item in flight raised, "none" if none
    success,           \* per process: return value of process_single_content_item
    exitCode,          \* per process: return value of main(), -1 while running
    hadDoc,            \* history: the item's document was committed when the existence query ran
    failedBefore,      \* history: stats.documents_failed when the item in flight started
    attempted,         \* history: items handed to process_single_content_item, all runs
    interrupted,       \* history: where Ctrl+C hit this run: "no" | "item" | "outer"
    args,              \* a component called on its own: its name and arguments
    result             \* a component called on its own: what it returned

vars == <<source, db, checkpoint, faultsLeft, pc, run, runsLeft, resume, items,
          start_index, i, stats, stage, sections, chunks, embedding, valid_chunks,
          document_summary, summary_errors, session, exc, success, exitCode, hadDoc,
          failedBefore, attempted, interrupted, args, result>>

----------------------------------------------------------------------------
(* Bounds *)

MaxItems == 3          \* source items of a sequential run
MaxFaults == 2         \* environment events of a sequential run
RaceFaults == 1        \* environment events while two writers race
ResumeFaults == 1      \* environment events of the checkpointed run and its restart
ResumeExtra == 2       \* items of the checkpointed run beyond the first checkpoint

(* Program constants *)

CheckpointEvery == 10  \* "Save checkpoint every 10 documents"
EXIT_INTERRUPT == 130  \* "Standard exit code for Ctrl+C"

Procs == {"w1", "w2"}

----------------------------------------------------------------------------
(* Values *)

EmptyRows == [docs |-> {}, sections |-> {}, chunks |-> {}]

NoCheckpoint == [kind |-> "none"]

\* no component is called outside the pipeline
NoCall == [fn |-> "none"]

callVars == <<args, result>>

pipelineVars ==
    <<source, db, checkpoint, faultsLeft, pc, run, runsLeft, resume, items,
      start_index, i, stats, stage, sections, chunks, embedding, valid_chunks,
      document_summary, summary_errors, session, exc, success, exitCode, hadDoc,
      failedBefore, attempted, interrupted>>

ZeroStats == [documents_processed |-> 0, documents_failed |-> 0,
              sections_created |-> 0, chunks_created |-> 0]

\* what the Section Builder and the Chunker cut from an item: every
\* non-empty section yields at least one chunk, empty content yields nothing
ContentKinds ==
    {[sections |-> 0, chunks |-> 0], [sections |-> 1, chunks |-> 1],
     [sections |-> 1, chunks |-> 2], [sections |-> 2, chunks |-> 2]}

RECURSIVE SetToSeq(_)
SetToSeq(S) ==
    IF S = {} THEN <<>>
    ELSE LET m == CHOOSE x \in S : \A y \in S : x <= y
         IN  <<m>> \o SetToSeq(S \ {m})

----------------------------------------------------------------------------
(* Pure parts of the code *)

\* process_all_content: the item the loop is at (content_items[i])
Item(p) == items[p][i[p] + 1]

\* _get_content_items: the source records that have no rag_documents row yet
GetContentItems(src, docs) ==
    SetToSeq({k \in DOMAIN src : k \notin {d.key : d \in docs}})

\* process_all_content: start_index = checkpoint.get('last_processed_index', 0) + 1
StartIndex(ckpt) ==
    (IF ckpt.kind = "progress" THEN ckpt.last_processed_index ELSE 0) + 1

\* process_all_content: content_items[start_index:]
SliceFrom(list, n) == SubSeq(list, n + 1, Len(list))

\* an existence query whose filter never matches
ExistingDocNever(docs, k) == FALSE

\* _save_to_database: the existence query on (source_type, source_id)
ExistingDoc(docs, k) == \E d \in docs : d.key = k

\* a rag_documents table without the uniqueness constraint
UniqueViolationNever(docs, k) == FALSE

\* rag_documents_source_unique: an insert of a second row for the pair is refused
UniqueViolation(docs, k) == \E d \in docs : d.key = k

\* an __exit__ that commits whether or not the block raised
ExitCommitsAlways(raised, pending) == pending

\* DatabaseSession.__exit__: what leaving the with block commits
ExitCommits(raised, pending) == IF raised THEN EmptyRows ELSE pending

\* _save_to_database: return True, or False from either except clause
SaveResult(e) == e = "none"

\* main: the exit code computed from the final statistics
ExitCode(st) ==
    IF st.documents_failed > 0 /\ st.documents_processed = 0 THEN 1
    ELSE IF st.documents_failed > st.documents_processed THEN 1
    ELSE 0

\* the transaction of process p for the item it is at
TxnId(p) == <<p, run[p], i[p]>>

\* _create_rag_document: the row with its section_count and chunk_count
DocRow(p) ==
    [id |-> TxnId(p), key |-> Item(p), section_count |-> sections[p],
     chunk_count |-> Cardinality(valid_chunks[p])]

\* _create_rag_section / _create_rag_chunk: the rows of the first n sections,
\* and of the valid chunks with chunk_index below n
SectionRows(p, n) == {[doc |-> TxnId(p), section_index |-> j] : j \in 0..(n - 1)}
ChunkRows(p, n) == {[doc |-> TxnId(p), chunk_index |-> c] : c \in {x \in valid_chunks[p] : x < n}}

\* a commit makes the rows of a session visible in storage
DbAdd(d, rows) ==
    [docs |-> d.docs \cup rows.docs, sections |-> d.sections \cup rows.sections,
     chunks |-> d.chunks \cup rows.chunks]

----------------------------------------------------------------------------
(* Initial states *)

InitPipeline(src, faults, active, runs) ==
    /\ source = src
    /\ db = EmptyRows
    /\ checkpoint = NoCheckpoint
    /\ faultsLeft = faults
    /\ pc = [p \in Procs |-> IF p \in active THEN "start" ELSE "exit"]
    /\ run = [p \in Procs |-> 1]
    /\ runsLeft = [p \in Procs |-> IF p \in active THEN runs ELSE 0]
    /\ resume = [p \in Procs |-> FALSE]
    /\ items = [p \in Procs |-> <<>>]
    /\ start_index = [p \in Procs |-> 0]
    /\ i = [p \in Procs |-> 0]
    /\ stats = [p \in Procs |-> ZeroStats]
    /\ stage = [p \in Procs |-> <<>>]
    /\ sections = [p \in Procs |-> 0]
    /\ chunks = [p \in Procs |-> 0]
    /\ embedding = [p \in Procs |-> <<>>]
    /\ valid_chunks = [p \in Procs |-> {}]
    /\ document_summary = [p \in Procs |-> FALSE]
    /\ summary_errors = [p \in Procs |-> {}]
    /\ session = [p \in Procs |-> EmptyRows]
    /\ exc = [p \in Procs |-> "none"]
    /\ success = [p \in Procs |-> FALSE]
    /\ exitCode = [p \in Procs |-> IF p \in active THEN -1 ELSE 0]
    /\ hadDoc = [p \in Procs |-> FALSE]
    /\ failedBefore = [p \in Procs |-> 0]
    /\ attempted = [p \in Procs |-> {}]
    /\ interrupted = [p \in Procs |-> "no"]

\* the pipeline on its own: no component is called outside it
InitWith(src, faults, active, runs) ==
    /\ InitPipeline(src, faults, active, runs)
    /\ args = NoCall
    /\ result = NoCall

\* a component on its own: no source item, no processor running
InitCall(a) ==
    /\ InitPipeline(<<>>, 0, {}, 0)
    /\ args = a
    /\ result = NoCall

\* one processor, up to MaxItems source items of any content
Init ==
    \E n \in 1..MaxItems : \E src \in [1..n -> ContentKinds] :
        InitWith(src, MaxFaults, {"w1"}, 0)

----------------------------------------------------------------------------
(* main and process_all_content *)

itemVars == <<sections, chunks, embedding, valid_chunks, document_summary, summary_errors>>
txnVars == <<session, exc, hadDoc>>
runVars == <<run, runsLeft, resume, items, start_index>>

\* main: parse --resume, load the work list, return 0 when it is empty
LoadItems(p) ==
    /\ pc[p] = "start"
    /\ \E r \in BOOLEAN : resume' = [resume EXCEPT ![p] = r]
    /\ LET found == GetContentItems(source, db.docs)
       IN  /\ items' = [items EXCEPT ![p] = found]
           /\ IF found = <<>>
              THEN /\ pc' = [pc EXCEPT ![p] = "exit"]
                   /\ exitCode' = [exitCode EXCEPT ![p] = 0]
              ELSE /\ pc' = [pc EXCEPT ![p] = "begin"]
                   /\ UNCHANGED exitCode
    /\ UNCHANGED <<callVars, source, db, checkpoint, faultsLeft, run, runsLeft, start_index, i,
                   stats, stage, itemVars, txnVars, success, failedBefore, attempted,
                   interrupted>>

\* process_all_content: load the checkpoint when resuming, slice the work list
BeginRun(p) ==
    /\ pc[p] = "begin"
    /\ LET start == IF resume[p] THEN StartIndex(checkpoint) ELSE 0
           rest == IF start > 0 THEN SliceFrom(items[p], start) ELSE items[p]
       IN  /\ start_index' = [start_index EXCEPT ![p] = start]
           /\ items' = [items EXCEPT ![p] = rest]
           /\ stage' = [stage EXCEPT ![p] = [j \in 1..Len(rest) |-> "pending"]]
    /\ i' = [i EXCEPT ![p] = 0]
    /\ pc' = [pc EXCEPT ![p] = "loop"]
    /\ UNCHANGED <<callVars, source, db, checkpoint, faultsLeft, run, runsLeft, resume, stats,
                   itemVars, txnVars, success, exitCode, failedBefore, attempted,
                   interrupted>>

\* process_all_content: the for statement; hands the next item to
\* process_single_content_item, or leaves the loop
NextItem(p) ==
    /\ pc[p] = "loop"
    /\ IF i[p] < Len(items[p])
       THEN /\ pc' = [pc EXCEPT ![p] = "sections"]
            /\ attempted' = [attempted EXCEPT ![p] = @ \cup {Item(p)}]
            /\ failedBefore' = [failedBefore EXCEPT ![p] = stats[p].documents_failed]
            /\ sections' = [sections EXCEPT ![p] = 0]
            /\ chunks' = [chunks EXCEPT ![p] = 0]
            /\ embedding' = [embedding EXCEPT ![p] = <<>>]
            /\ valid_chunks' = [valid_chunks EXCEPT ![p] = {}]
            /\ document_summary' = [document_summary EXCEPT ![p] = FALSE]
            /\ summary_errors' = [summary_errors EXCEPT ![p] = {}]
            /\ exc' = [exc EXCEPT ![p] = "none"]
            /\ hadDoc' = [hadDoc EXCEPT ![p] = FALSE]
       ELSE /\ pc' = [pc EXCEPT ![p] = "final"]
            /\ UNCHANGED <<attempted, failedBefore, itemVars, exc, hadDoc>>
    /\ UNCHANGED <<callVars, source, db, checkpoint, faultsLeft, runVars, i, stats, stage, session,
                   success, exitCode, interrupted>>

\* process_all_content: after process_single_content_item returned; the
\* checkpoint every CheckpointEvery items, then the next iteration
ItemDone(p) ==
    /\ pc[p] = "item_done"
    /\ checkpoint' =
         IF (i[p] + 1) % CheckpointEvery = 0
         THEN [kind |-> "progress",
               last_processed_index |-> start_index[p] + i[p],
               processed_count |-> stats[p].documents_processed,
               failed_count |-> stats[p].documents_failed]
         ELSE checkpoint
    /\ i' = [i EXCEPT ![p] = @ + 1]
    /\ pc' = [pc EXCEPT ![p] = "loop"]
    /\ UNCHANGED <<callVars, source, db, faultsLeft, runVars, stats, stage, itemVars, txnVars,
                   success, exitCode, failedBefore, attempted, interrupted>>

\* process_all_content returns after _log_final_statistics; main computes the exit code
Finish(p) ==
    /\ pc[p] = "final"
    /\ exitCode' = [exitCode EXCEPT ![p] = ExitCode(stats[p])]
    /\ pc' = [pc EXCEPT ![p] = "exit"]
    /\ UNCHANGED <<callVars, source, db, checkpoint, faultsLeft, runVars, i, stats, stage, itemVars,
                   txnVars, success, failedBefore, attempted, interrupted>>

----------------------------------------------------------------------------
(* process_single_content_item *)

\* the stage the item in flight moves to
SetStage(p, st) == stage' = [stage EXCEPT ![p][i[p] + 1] = st]

\* "return False" of steps 1, 3 and 5: the item failed, no counter changes
ReturnFalse(p) ==
    /\ SetStage(p, "failed")
    /\ success' = [success EXCEPT ![p] = FALSE]
    /\ pc' = [pc EXCEPT ![p] = "item_done"]
    /\ UNCHANGED stats

\* an except clause that counts the failure and re-raises: the loop ends
ItemExceptionStops(p) ==
    /\ SetStage(p, "failed")
    /\ exc' = [exc EXCEPT ![p] = "Exception"]
    /\ stats' = [stats EXCEPT ![p].documents_failed = @ + 1]
    /\ success' = [success EXCEPT ![p] = FALSE]
    /\ pc' = [pc EXCEPT ![p] = "final"]

\* the except clause of process_single_content_item
ItemException(p) ==
    /\ SetStage(p, "failed")
    /\ exc' = [exc EXCEPT ![p] = "Exception"]
    /\ stats' = [stats EXCEPT ![p].documents_failed = @ + 1]
    /\ success' = [success EXCEPT ![p] = FALSE]
    /\ pc' = [pc EXCEPT ![p] = "item_done"]

\* a step finished and the next one starts
Advance(p, st, next) ==
    /\ SetStage(p, st)
    /\ pc' = [pc EXCEPT ![p] = next]
    /\ UNCHANGED <<stats, success>>

\* a Step 1 that hands the sections straight to the Chunker
CreateSectionsSkipSummaries(p) ==
    /\ pc[p] = "sections"
    /\ \E n \in {0, source[Item(p)].sections} :
         /\ \/ n = source[Item(p)].sections /\ UNCHANGED faultsLeft
            \/ /\ n = 0 /\ source[Item(p)].sections > 0
               /\ faultsLeft > 0 /\ faultsLeft' = faultsLeft - 1
         /\ sections' = [sections EXCEPT ![p] = n]
         /\ IF n = 0 THEN ReturnFalse(p) ELSE Advance(p, "sections_built", "chunk")
    /\ UNCHANGED <<callVars, source, db, checkpoint, runVars, i, chunks, embedding, valid_chunks,
                   document_summary, summary_errors, txnVars, exitCode, failedBefore, attempted,
                   interrupted>>

\* Step 1: create_sections_from_content; an exception inside it is caught
\* there and leaves the section list empty
CreateSections(p) ==
    /\ pc[p] = "sections"
    /\ \E n \in {0, source[Item(p)].sections} :
         /\ \/ n = source[Item(p)].sections /\ UNCHANGED faultsLeft
            \/ /\ n = 0 /\ source[Item(p)].sections > 0
               /\ faultsLeft > 0 /\ faultsLeft' = faultsLeft - 1
         /\ sections' = [sections EXCEPT ![p] = n]
         /\ IF n = 0 THEN ReturnFalse(p) ELSE Advance(p, "sections_built", "summarize")
    /\ UNCHANGED <<callVars, source, db, checkpoint, runVars, i, chunks, embedding, valid_chunks,
                   document_summary, summary_errors, txnVars, exitCode, failedBefore, attempted,
                   interrupted>>

\* a Step 2 whose failing summarization call is not handled
GenerateSectionSummariesRaises(p) ==
    /\ pc[p] = "summarize"
    /\ \/ /\ Advance(p, "summarized", "chunk")
          /\ UNCHANGED <<faultsLeft, summary_errors, exc>>
       \/ /\ faultsLeft > 0 /\ faultsLeft' = faultsLeft - 1
          /\ summary_errors' = [summary_errors EXCEPT ![p] = @ \cup {"section"}]
          /\ ItemException(p)
    /\ UNCHANGED <<callVars, source, db, checkpoint, runVars, i, sections, chunks, embedding,
                   valid_chunks, document_summary, session, hadDoc, exitCode, failedBefore,
                   attempted, interrupted>>

\* Step 2: generate_section_summaries; a summarization call that raises is
\* caught per section and the section gets the fallback summary
GenerateSectionSummaries(p) ==
    /\ pc[p] = "summarize"
    /\ \/ UNCHANGED <<faultsLeft, summary_errors>>
       \/ /\ faultsLeft > 0 /\ faultsLeft' = faultsLeft - 1
          /\ summary_errors' = [summary_errors EXCEPT ![p] = @ \cup {"section"}]
    /\ Advance(p, "summarized", "chunk")
    /\ UNCHANGED <<callVars, source, db, checkpoint, runVars, i, sections, chunks, embedding,
                   valid_chunks, document_summary, txnVars, exitCode, failedBefore,
                   attempted, interrupted>>

\* Step 3: create_chunks_from_sections; it has no handler of its own, an
\* exception reaches the except clause of process_single_content_item
CreateChunks(p) ==
    /\ pc[p] = "chunk"
    /\ \/ /\ chunks' = [chunks EXCEPT ![p] = source[Item(p)].chunks]
          /\ IF source[Item(p)].chunks = 0
             THEN ReturnFalse(p)
             ELSE Advance(p, "chunked", "embed")
          /\ UNCHANGED <<faultsLeft, exc>>
       \/ /\ faultsLeft > 0 /\ faultsLeft' = faultsLeft - 1
          /\ ItemException(p)
          /\ UNCHANGED chunks
    /\ UNCHANGED <<callVars, source, db, checkpoint, runVars, i, sections, embedding, valid_chunks,
                   document_summary, summary_errors, session, hadDoc, exitCode, failedBefore, attempted,
                   interrupted>>

\* Step 4: generate_embeddings_for_chunks; a chunk whose embedding call
\* failed keeps embedding None
GenerateEmbeddings(p) ==
    /\ pc[p] = "embed"
    /\ \E e \in [0..(chunks[p] - 1) -> {"ok", "null"}] :
         /\ \/ (\A c \in DOMAIN e : e[c] = "ok") /\ UNCHANGED faultsLeft
            \/ /\ \E c \in DOMAIN e : e[c] = "null"
               /\ faultsLeft > 0 /\ faultsLeft' = faultsLeft - 1
         /\ embedding' = [embedding EXCEPT ![p] = e]
    /\ Advance(p, "embedded", "validate")
    /\ UNCHANGED <<callVars, source, db, checkpoint, runVars, i, sections, chunks, valid_chunks,
                   document_summary, summary_errors, txnVars, exitCode, failedBefore, attempted,
                   interrupted>>

\* a Step 5 that gives the item up as soon as one chunk has no embedding
ValidateEmbeddingsAllOrNothing(p) ==
    /\ pc[p] = "validate"
    /\ LET valid == {c \in DOMAIN embedding[p] : embedding[p][c] = "ok"}
       IN  /\ valid_chunks' = [valid_chunks EXCEPT ![p] = valid]
           /\ IF valid # DOMAIN embedding[p]
              THEN ReturnFalse(p) ELSE Advance(p, "validated", "docsummary")
    /\ UNCHANGED <<callVars, source, db, checkpoint, faultsLeft, runVars, i, sections, chunks,
                   embedding, document_summary, summary_errors, txnVars, exitCode, failedBefore,
                   attempted, interrupted>>

\* Step 5: validate_embeddings, and the return when no chunk is valid
ValidateEmbeddings(p) ==
    /\ pc[p] = "validate"
    /\ LET valid == {c \in DOMAIN embedding[p] : embedding[p][c] = "ok"}
       IN  /\ valid_chunks' = [valid_chunks EXCEPT ![p] = valid]
           /\ IF valid = {} THEN ReturnFalse(p) ELSE Advance(p, "validated", "docsummary")
    /\ UNCHANGED <<callVars, source, db, checkpoint, faultsLeft, runVars, i, sections, chunks,
                   embedding, document_summary, summary_errors, txnVars, exitCode, failedBefore,
                   attempted, interrupted>>

\* Step 6: generate_document_summary; a summarization call that raises is
\* caught and the summaries of the first sections are joined instead
GenerateDocumentSummary(p) ==
    /\ pc[p] = "docsummary"
    /\ \/ UNCHANGED <<faultsLeft, summary_errors>>
       \/ /\ faultsLeft > 0 /\ faultsLeft' = faultsLeft - 1
          /\ summary_errors' = [summary_errors EXCEPT ![p] = @ \cup {"document"}]
    /\ document_summary' = [document_summary EXCEPT ![p] = TRUE]
    /\ pc' = [pc EXCEPT ![p] = "save_check"]
    /\ UNCHANGED <<callVars, source, db, checkpoint, runVars, i, stats, stage, sections,
                   chunks, embedding, valid_chunks, txnVars, success, exitCode,
                   failedBefore, attempted, interrupted>>

----------------------------------------------------------------------------
(* Step 7: _save_to_database, one transaction in a DatabaseSession *)

driverVars == <<checkpoint, runVars, i, stats, stage, itemVars, success, exitCode,
                failedBefore, attempted, interrupted>>

\* the existence query; "return True" when the document exists
SaveCheck(p) ==
    /\ pc[p] = "save_check"
    /\ hadDoc' = [hadDoc EXCEPT ![p] = \E d \in db.docs : d.key = Item(p)]
    /\ pc' = [pc EXCEPT ![p] =
                IF ExistingDoc(db.docs, Item(p)) THEN "save_exit" ELSE "save_doc"]
    /\ UNCHANGED <<callVars, source, db, faultsLeft, session, exc, driverVars>>

\* session.add(rag_document); session.flush(): the insert waits while another
\* open transaction holds a row for the same pair, and is refused once such
\* a row is committed
SaveDocument(p) ==
    /\ pc[p] = "save_doc"
    /\ \A q \in Procs \ {p} : \A d \in session[q].docs : d.key # Item(p)
    /\ IF UniqueViolation(db.docs, Item(p))
       THEN /\ exc' = [exc EXCEPT ![p] = "IntegrityError"]
            /\ pc' = [pc EXCEPT ![p] = "save_exit"]
            /\ UNCHANGED <<session, faultsLeft>>
       ELSE \/ /\ session' = [session EXCEPT ![p].docs = {DocRow(p)}]
               /\ pc' = [pc EXCEPT ![p] = "save_sections"]
               /\ UNCHANGED <<exc, faultsLeft>>
            \/ /\ faultsLeft > 0 /\ faultsLeft' = faultsLeft - 1
               /\ exc' = [exc EXCEPT ![p] = "Exception"]
               /\ pc' = [pc EXCEPT ![p] = "save_exit"]
               /\ UNCHANGED session
    /\ UNCHANGED <<callVars, source, db, hadDoc, driverVars>>

\* the section loop and session.flush(): all section rows, or an error after
\* the first n of them
SaveSections(p) ==
    /\ pc[p] = "save_sections"
    /\ \/ /\ session' = [session EXCEPT ![p].sections = SectionRows(p, sections[p])]
          /\ pc' = [pc EXCEPT ![p] = "save_chunks"]
          /\ UNCHANGED <<exc, faultsLeft>>
       \/ /\ faultsLeft > 0 /\ faultsLeft' = faultsLeft - 1
          /\ \E n \in 0..(sections[p] - 1) :
               session' = [session EXCEPT ![p].sections = SectionRows(p, n)]
          /\ exc' = [exc EXCEPT ![p] = "Exception"]
          /\ pc' = [pc EXCEPT ![p] = "save_exit"]
    /\ UNCHANGED <<callVars, source, db, hadDoc, driverVars>>

\* the chunk loop: _find_section_for_chunk, _create_rag_chunk (which raises
\* ValueError when the embedding does not convert), session.add
SaveChunks(p) ==
    /\ pc[p] = "save_chunks"
    /\ \/ /\ session' = [session EXCEPT ![p].chunks = ChunkRows(p, chunks[p])]
          /\ pc' = [pc EXCEPT ![p] = "save_commit"]
          /\ UNCHANGED <<exc, faultsLeft>>
       \/ /\ faultsLeft > 0 /\ faultsLeft' = faultsLeft - 1
          /\ \E c \in valid_chunks[p] :
               session' = [session EXCEPT ![p].chunks = ChunkRows(p, c)]
          /\ exc' = [exc EXCEPT ![p] = "Exception"]
          /\ pc' = [pc EXCEPT ![p] = "save_exit"]
    /\ UNCHANGED <<callVars, source, db, hadDoc, driverVars>>

\* session.commit(): the pending rows become visible together, or the
\* commit (the flush of the chunk inserts) raises
SaveCommit(p) ==
    /\ pc[p] = "save_commit"
    /\ \/ /\ db' = DbAdd(db, session[p])
          /\ session' = [session EXCEPT ![p] = EmptyRows]
          /\ pc' = [pc EXCEPT ![p] = "save_exit"]
          /\ UNCHANGED <<exc, faultsLeft>>
       \/ /\ faultsLeft > 0 /\ faultsLeft' = faultsLeft - 1
          /\ exc' = [exc EXCEPT ![p] = "Exception"]
          /\ pc' = [pc EXCEPT ![p] = "save_exit"]
          /\ UNCHANGED <<db, session>>
    /\ UNCHANGED <<callVars, source, hadDoc, driverVars>>

\* DatabaseSession.__exit__, then the return value of _save_to_database
SaveExit(p) ==
    /\ pc[p] = "save_exit"
    /\ db' = DbAdd(db, ExitCommits(exc[p] # "none", session[p]))
    /\ session' = [session EXCEPT ![p] = EmptyRows]
    /\ success' = [success EXCEPT ![p] = SaveResult(exc[p])]
    /\ pc' = [pc EXCEPT ![p] = "save_done"]
    /\ UNCHANGED <<callVars, source, checkpoint, faultsLeft, runVars, i, stats, stage, itemVars,
                   exc, hadDoc, exitCode, failedBefore, attempted, interrupted>>

\* process_single_content_item: the counters after _save_to_database returned
CountItem(p) ==
    /\ pc[p] = "save_done"
    /\ IF success[p]
       THEN /\ stats' = [stats EXCEPT
                           ![p].documents_processed = @ + 1,
                           ![p].sections_created = @ + sections[p],
                           ![p].chunks_created = @ + Cardinality(valid_chunks[p])]
            /\ SetStage(p, "persisted")
       ELSE /\ stats' = [stats EXCEPT ![p].documents_failed = @ + 1]
            /\ SetStage(p, "failed")
    /\ pc' = [pc EXCEPT ![p] = "item_done"]
    /\ UNCHANGED <<callVars, source, db, checkpoint, faultsLeft, runVars, i, itemVars, txnVars,
                   success, exitCode, failedBefore, attempted, interrupted>>

----------------------------------------------------------------------------
(* Ctrl+C and a new invocation *)

InItem ==
    {"sections", "summarize", "chunk", "embed", "validate", "docsummary", "save_check",
     "save_doc", "save_sections", "save_chunks", "save_commit", "save_exit", "save_done",
     "item_done"}

\* KeyboardInterrupt inside the try of the per-item loop: an open session
\* rolls back, the loop breaks, process_all_content returns normally
InterruptItem(p) ==
    /\ pc[p] \in InItem
    /\ faultsLeft > 0 /\ faultsLeft' = faultsLeft - 1
    /\ db' = DbAdd(db, ExitCommits(TRUE, session[p]))
    /\ session' = [session EXCEPT ![p] = EmptyRows]
    /\ interrupted' = [interrupted EXCEPT ![p] = "item"]
    /\ pc' = [pc EXCEPT ![p] = "final"]
    /\ UNCHANGED <<callVars, source, checkpoint, runVars, i, stats, stage, itemVars, exc, hadDoc,
                   success, exitCode, failedBefore, attempted>>

\* KeyboardInterrupt outside that try (loading, the for statement, the final
\* statistics): the handler of main writes the checkpoint and returns 130
InterruptMain(p) ==
    /\ pc[p] \in {"start", "begin", "loop", "final"}
    /\ faultsLeft > 0 /\ faultsLeft' = faultsLeft - 1
    /\ checkpoint' = [kind |-> "interrupted",
                      processed_count |-> stats[p].documents_processed,
                      failed_count |-> stats[p].documents_failed]
    /\ interrupted' = [interrupted EXCEPT ![p] = IF @ = "item" THEN @ ELSE "outer"]
    /\ exitCode' = [exitCode EXCEPT ![p] = EXIT_INTERRUPT]
    /\ pc' = [pc EXCEPT ![p] = "exit"]
    /\ UNCHANGED <<callVars, source, db, runVars, i, stats, stage, itemVars, txnVars, success,
                   failedBefore, attempted>>

\* the command is started again: a new ContentProcessor with fresh statistics
Restart(p) ==
    /\ pc[p] = "exit"
    /\ runsLeft[p] > 0
    /\ runsLeft' = [runsLeft EXCEPT ![p] = @ - 1]
    /\ run' = [run EXCEPT ![p] = @ + 1]
    /\ pc' = [pc EXCEPT ![p] = "start"]
    /\ stats' = [stats EXCEPT ![p] = ZeroStats]
    /\ items' = [items EXCEPT ![p] = <<>>]
    /\ stage' = [stage EXCEPT ![p] = <<>>]
    /\ start_index' = [start_index EXCEPT ![p] = 0]
    /\ i' = [i EXCEPT ![p] = 0]
    /\ exitCode' = [exitCode EXCEPT ![p] = -1]
    /\ interrupted' = [interrupted EXCEPT ![p] = "no"]
    /\ UNCHANGED <<callVars, source, db, checkpoint, faultsLeft, resume, itemVars, txnVars, success,
                   failedBefore, attempted>>

----------------------------------------------------------------------------
(* Specifications *)

Step(p) ==
    \/ LoadItems(p)
    \/ BeginRun(p)
    \/ NextItem(p)
    \/ CreateSections(p)
    \/ GenerateSectionSummaries(p)
    \/ CreateChunks(p)
    \/ GenerateEmbeddings(p)
    \/ ValidateEmbeddings(p)
    \/ GenerateDocumentSummary(p)
    \/ SaveCheck(p)
    \/ SaveDocument(p)
    \/ SaveSections(p)
    \/ SaveChunks(p)
    \/ SaveCommit(p)
    \/ SaveExit(p)
    \/ CountItem(p)
    \/ ItemDone(p)
    \/ Finish(p)
    \/ InterruptItem(p)
    \/ InterruptMain(p)

Next == \E p \in Procs : Step(p)

\* one processor, one invocation
Spec == Init /\ [][Next]_vars

\* two processors started on the same source item
InitRace ==
    \E src \in [1..1 -> ContentKinds] : InitWith(src, RaceFaults, Procs, 0)

SpecRace == InitRace /\ [][Next]_vars

\* one processor whose work list reaches past the first checkpoint, and its restart
InitResume ==
    InitWith([k \in 1..(CheckpointEvery + ResumeExtra) |-> [sections |-> 1, chunks |-> 1]],
             ResumeFaults, {"w1"}, 1)

NextResume == Next \/ \E p \in Procs : Restart(p)

SpecResume == InitResume /\ [][NextResume]_vars

----------------------------------------------------------------------------
(* Properties *)

Terminal == {"failed", "persisted"}

StageOrder ==
    <<"pending", "sections_built", "summarized", "chunked", "embedded", "validated",
      "persisted">>

StageRank(st) == CHOOSE n \in 1..Len(StageOrder) : StageOrder[n] = st

DocsOf(k) == {d \in db.docs : d.key = k}

\* rows in storage that the transaction of p for its current item wrote
WrittenBy(p) ==
    {d \in db.docs : d.id = TxnId(p)} \cup {r \in db.sections : r.doc = TxnId(p)}
        \cup {r \in db.chunks : r.doc = TxnId(p)}

\* C1: a persistence step that starts when the item's document is already
\* committed writes no document, section or chunk row and returns success,
\* and storage holds exactly one document for the item.
C1_SecondRunIsNoOp ==
    \A p \in Procs :
        (pc[p] \in {"save_exit", "save_done", "item_done"} /\ hadDoc[p]) =>
            /\ session[p] = EmptyRows
            /\ WrittenBy(p) = {}
            /\ Cardinality(DocsOf(Item(p))) = 1
            /\ exc[p] = "none"
            /\ pc[p] # "save_exit" => success[p]

C1_Witness ==
    \E p \in Procs : pc[p] = "save_done" /\ hadDoc[p] /\ success[p]

\* C2: storage never holds part of an item: every committed document has
\* exactly the section rows 0..section_count-1 and chunk_count chunk rows,
\* one per valid chunk, cut from all sections of its source item, and no
\* section or chunk row is committed without its document.
C2_AllOrNothing ==
    /\ \A d \in db.docs :
         /\ d.section_count = source[d.key].sections
         /\ {r.section_index : r \in {x \in db.sections : x.doc = d.id}}
                = 0..(d.section_count - 1)
         /\ d.chunk_count > 0
         /\ Cardinality({r \in db.chunks : r.doc = d.id}) = d.chunk_count
    /\ \A r \in db.sections \cup db.chunks : \E d \in db.docs : d.id = r.doc

C2_Witness ==
    \E p \in Procs :
        /\ pc[p] = "save_done" /\ exc[p] = "Exception" /\ ~success[p]
        /\ WrittenBy(p) = {} /\ db.docs # {}

\* C3: the writer whose insert hit the uniqueness constraint reports success
\* and the item is not counted in documents_failed.
C3_LoserReportsSuccess ==
    \A p \in Procs :
        (pc[p] \in {"save_done", "item_done"} /\ exc[p] = "IntegrityError") =>
            /\ success[p]
            /\ stats[p].documents_failed = failedBefore[p]

\* C4: under every interleaving storage holds at most one document per
\* (source_type, source_id), and every committed section and chunk row
\* belongs to that document.
C4_OneWinner ==
    /\ \A k \in DOMAIN source : Cardinality(DocsOf(k)) <= 1
    /\ \A r \in db.sections \cup db.chunks : \E d \in db.docs : d.id = r.doc

C4_Witness ==
    \E p \in Procs :
        /\ pc[p] = "save_exit" /\ exc[p] = "IntegrityError" /\ ~hadDoc[p]
        /\ Cardinality(DocsOf(Item(p))) = 1
        /\ db.sections # {} /\ db.chunks # {}

\* C5: within a run an item's stage only moves to the next stage of the chain
\* or to failed, only the item in flight moves, a failed or persisted item
\* never moves again, and the document summary is produced exactly between
\* validation and the first write of the transaction.
C5_StageOrder ==
    [][\A p \in Procs :
         /\ \A j \in DOMAIN stage[p] :
              (j \in DOMAIN stage'[p] /\ stage'[p][j] # stage[p][j]) =>
                  /\ j = i[p] + 1
                  /\ stage[p][j] \notin Terminal
                  /\ \/ stage'[p][j] = "failed"
                     \/ StageRank(stage'[p][j]) = StageRank(stage[p][j]) + 1
                  /\ stage'[p][j] = "persisted" => document_summary[p]
         /\ (document_summary'[p] /\ ~document_summary[p]) =>
                /\ stage[p][i[p] + 1] = "validated"
                /\ session[p] = EmptyRows /\ WrittenBy(p) = {}
         /\ session'[p] # EmptyRows => document_summary'[p]
      ]_vars

C5_Witness ==
    \E p \in Procs : \E j, k \in DOMAIN stage[p] :
        stage[p][j] = "persisted" /\ stage[p][k] = "failed" /\ pc[p] = "exit"

\* C6: every item that ends failed has incremented documents_failed by
\* exactly one when the driver goes on to the next item.
C6_FailedIsCounted ==
    \A p \in Procs :
        (pc[p] = "item_done" /\ stage[p][i[p] + 1] = "failed") =>
            stats[p].documents_failed = failedBefore[p] + 1

\* C7: when a restarted run that resumed from a progress checkpoint has
\* finished, every source item is ingested or was attempted in one of the runs.
C7_ResumeSkipsNothing ==
    \A p \in Procs :
        (/\ pc[p] = "exit" /\ run[p] > 1 /\ resume[p]
         /\ start_index[p] >= CheckpointEvery /\ interrupted[p] = "no") =>
            \A k \in DOMAIN source : ExistingDoc(db.docs, k) \/ k \in attempted[p]

\* C8: a run interrupted while an item was in flight ends with exit code 130
\* and an interrupted checkpoint on disk, and nothing of that item committed.
C8_InterruptCheckpointed ==
    \A p \in Procs :
        (pc[p] = "exit" /\ interrupted[p] = "item") =>
            /\ exitCode[p] = EXIT_INTERRUPT
            /\ checkpoint.kind = "interrupted"
            /\ WrittenBy(p) = {}

\* C9: a finished run exits 0 when at least one item was persisted, and 1
\* when items were attempted and all of them failed.
C9_ExitCode ==
    \A p \in Procs :
        (pc[p] = "exit" /\ interrupted[p] = "no" /\ stage[p] # <<>>) =>
            /\ (\E j \in DOMAIN stage[p] : stage[p][j] = "persisted") => exitCode[p] = 0
            /\ (\A j \in DOMAIN stage[p] : stage[p][j] = "failed") => exitCode[p] = 1

\* C10: an exception raised by an item is counted as exactly one failure and
\* leaves the loop running; items are taken one at a time in list order, and
\* a run that was not interrupted ends with every item of its list attempted.
C10_ExceptionDoesNotStop ==
    \A p \in Procs :
        /\ (pc[p] \in {"item_done", "loop", "final", "exit"} /\ exc[p] = "Exception"
                /\ stage[p] # <<>> /\ interrupted[p] = "no") =>
               stats[p].documents_failed = failedBefore[p] + 1
        /\ (pc[p] \in {"final", "exit"} /\ interrupted[p] = "no") =>
               \A j \in DOMAIN stage[p] : stage[p][j] \in Terminal
        /\ \A j \in DOMAIN stage[p] :
               stage[p][j] # "pending" =>
                   /\ j <= i[p] + 1
                   /\ \A h \in 1..(j - 1) : stage[p][h] \in Terminal

C10_Witness ==
    \E p \in Procs :
        /\ pc[p] = "exit" /\ interrupted[p] = "no" /\ Len(stage[p]) >= 2
        /\ stage[p][1] = "failed" /\ stage[p][2] = "persisted"
        /\ stats[p].documents_failed = 1

----------------------------------------------------------------------------
(* EmbeddingService.embed_batch, embed_batch_for_pgvector                    *)
(* (scripts/embedding_service.py)                                            *)

MaxTexts == 3                  \* texts handed to one call
MaxBatchSize == 2              \* largest batch_size a caller passes

EMBEDDING_DIMENSIONS == 1536
MAX_BATCH_SIZE == 2048
NoBatchSize == 0               \* batch_size = None

\* texts a caller can pass: empty, whitespace only, plain, padded with
\* whitespace, and one beyond MAX_TOKENS_PER_REQUEST * 4 characters
Texts == {"", "  ", "a", " b ", "c*40000"}

\* str.strip()
Strip(t) == CASE t = "  " -> "" [] t = " b " -> "b" [] OTHER -> t

\* text[:max_chars] of a text estimated above MAX_TOKENS_PER_REQUEST
TruncateToLimit(t) == IF t = "c*40000" THEN "c*32764" ELSE t

\* _validate_text: raises ValueError on a text that is empty once stripped,
\* otherwise returns the stripped text cut to the token limit
ValidateText(t) ==
    IF Strip(t) = "" THEN [raised |-> TRUE, text |-> ""]
    ELSE [raised |-> FALSE, text |-> TruncateToLimit(Strip(t))]

\* embed_batch: the validation loop; a text that raises is skipped
RECURSIVE ValidatedTexts(_)
ValidatedTexts(texts) ==
    IF texts = <<>> THEN <<>>
    ELSE LET v == ValidateText(Head(texts))
         IN  (IF v.raised THEN <<>> ELSE <<v.text>>) \o ValidatedTexts(Tail(texts))

\* what one call of the embeddings API does
Outcomes == {"ok", "error", "dims"}

\* a vector, by the text it embeds and its length; [] is the empty vector
EmptyEmbedding == [of |-> "", dim |-> 0]

\* client.embeddings.create: one vector per text of the batch, in order; in
\* a "dims" response the last vector is one component short
ApiResponse(batch, outcome) ==
    [j \in 1..Len(batch) |->
        [of |-> batch[j],
         dim |-> IF outcome = "dims" /\ j = Len(batch)
                 THEN EMBEDDING_DIMENSIONS - 1 ELSE EMBEDDING_DIMENSIONS]]

\* a batch loop that takes the vectors of a response as they come
EmbedSubBatchAnyLength(batch, outcome) ==
    IF outcome = "error" THEN [j \in 1..Len(batch) |-> EmptyEmbedding]
    ELSE ApiResponse(batch, outcome)

\* embed_batch: the body of the batch loop; an API error or a vector of the
\* wrong length puts one empty vector per text of the batch
EmbedSubBatch(batch, outcome) ==
    LET batch_embeddings == ApiResponse(batch, outcome)
        failed == \/ outcome = "error"
                  \/ \E j \in 1..Len(batch) :
                        batch_embeddings[j].dim # EMBEDDING_DIMENSIONS
    IN  IF failed THEN [j \in 1..Len(batch) |-> EmptyEmbedding] ELSE batch_embeddings

\* embed_batch: for i in range(0, len(validated_texts), batch_size)
RECURSIVE EmbedSubBatches(_, _, _)
EmbedSubBatches(validated_texts, batch_size, outcomes) ==
    IF validated_texts = <<>> THEN <<>>
    ELSE LET n == IF Len(validated_texts) < batch_size
                  THEN Len(validated_texts) ELSE batch_size
         IN  EmbedSubBatch(SubSeq(validated_texts, 1, n), Head(outcomes))
                \o EmbedSubBatches(SubSeq(validated_texts, n + 1, Len(validated_texts)),
                                   batch_size, Tail(outcomes))

\* embed_batch: BatchEmbeddingResult, or ValueError when no text is valid;
\* when the client cannot be built every vector is empty
EmbedBatch(texts, size, outcomes, client_ok) ==
    LET batch_size == IF size = NoBatchSize
                      THEN (IF MAX_BATCH_SIZE < Len(texts) THEN MAX_BATCH_SIZE ELSE Len(texts))
                      ELSE size
        validated_texts == ValidatedTexts(texts)
    IN  IF validated_texts = <<>>
        THEN [raised |-> TRUE, embeddings |-> <<>>, texts |-> <<>>]
        ELSE [raised |-> FALSE,
              embeddings |->
                  IF client_ok
                  THEN EmbedSubBatches(validated_texts, batch_size, outcomes)
                  ELSE [j \in 1..Len(validated_texts) |-> EmptyEmbedding],
              texts |-> validated_texts]

\* None in a list of pgvector strings
NoEmbedding == [str |-> FALSE, of |-> "", dim |-> 0]

\* _format_for_pgvector: str(embedding), the components in order
FormatForPgvector(e) == [str |-> TRUE, of |-> e.of, dim |-> e.dim]

\* embed_batch_for_pgvector: the formatted vector, None for an empty one
EmbedBatchForPgvector(texts, size, outcomes, client_ok) ==
    LET r == EmbedBatch(texts, size, outcomes, client_ok)
    IN  [raised |-> r.raised,
         pgvector_embeddings |->
             [j \in 1..Len(r.embeddings) |->
                 IF r.embeddings[j] # EmptyEmbedding
                 THEN FormatForPgvector(r.embeddings[j]) ELSE NoEmbedding],
         texts |-> r.texts]

\* a caller passes texts and a batch size; each sub-batch call has an outcome
InitEmbed ==
    \E n \in 1..MaxTexts : \E t \in [1..n -> Texts] :
    \E size \in {NoBatchSize} \cup 1..MaxBatchSize :
    \E o \in [1..MaxTexts -> Outcomes] : \E c \in BOOLEAN :
        InitCall([fn |-> "embed_batch_for_pgvector", texts |-> t, batch_size |-> size,
                  outcomes |-> o, client_ok |-> c])

CallEmbedBatchForPgvector ==
    /\ args.fn = "embed_batch_for_pgvector"
    /\ result = NoCall
    /\ result' = EmbedBatchForPgvector(args.texts, args.batch_size, args.outcomes,
                                       args.client_ok)
    /\ UNCHANGED <<args, pipelineVars>>

NextEmbed == CallEmbedBatchForPgvector

SpecEmbed == InitEmbed /\ [][NextEmbed]_vars

\* the sub-batch (counted from 1) that holds position j of the input list
SubBatchOf(j) ==
    IF args.batch_size = NoBatchSize THEN 1 ELSE ((j - 1) \div args.batch_size) + 1

\* C11: embed_batch returns one result per input text, at the index of that
\* text: null for every text of a failed sub-batch, and the vector of the
\* text itself for every text of any other sub-batch, for any input list.
C11_IndexAligned ==
    (args.fn = "embed_batch_for_pgvector" /\ result # NoCall /\ ~result.raised
        /\ args.client_ok) =>
        /\ Len(result.pgvector_embeddings) = Len(args.texts)
        /\ \A j \in 1..Len(args.texts) :
              IF args.outcomes[SubBatchOf(j)] # "ok"
              THEN result.pgvector_embeddings[j] = NoEmbedding
              ELSE /\ result.pgvector_embeddings[j].str
                   /\ result.pgvector_embeddings[j].of = ValidateText(args.texts[j]).text

----------------------------------------------------------------------------
(* Steps 4, 5 and the chunk rows of step 7 on one chunk list:                *)
(* generate_embeddings_for_chunks, validate_embeddings, _create_rag_chunk    *)

MaxPattern == 2                \* distinct leading texts of a chunk list

EMBEDDING_BATCH_SIZE == 75

\* generate_embeddings_for_chunks: one batch of at most EMBEDDING_BATCH_SIZE
\* chunks; an exception of the service leaves the whole batch None
EmbedChunkBatch(batch, outcome, client_ok) ==
    LET r == EmbedBatchForPgvector([j \in 1..Len(batch) |-> batch[j].content_text],
                                   EMBEDDING_BATCH_SIZE, <<outcome>>, client_ok)
    IN  [j \in 1..Len(batch) |->
            [batch[j] EXCEPT !.embedding =
                IF ~r.raised /\ j <= Len(r.pgvector_embeddings)
                             /\ r.pgvector_embeddings[j] # NoEmbedding
                THEN r.pgvector_embeddings[j] ELSE NoEmbedding]]

\* generate_embeddings_for_chunks: for i in range(0, len(chunks), batch_size)
RECURSIVE EmbedChunkBatches(_, _, _)
EmbedChunkBatches(cs, outcomes, client_ok) ==
    IF cs = <<>> THEN <<>>
    ELSE LET n == IF Len(cs) < EMBEDDING_BATCH_SIZE THEN Len(cs) ELSE EMBEDDING_BATCH_SIZE
         IN  EmbedChunkBatch(SubSeq(cs, 1, n), Head(outcomes), client_ok)
                \o EmbedChunkBatches(SubSeq(cs, n + 1, Len(cs)), Tail(outcomes), client_ok)

\* generate_embeddings_for_chunks: without an embedding service the chunks
\* come back as they are
GenerateEmbeddingsForChunks(cs, service, outcomes, client_ok) ==
    IF service THEN EmbedChunkBatches(cs, outcomes, client_ok) ELSE cs

\* validate_embeddings: the chunks whose embedding is a string with brackets
ValidateEmbeddingsOf(cs) == SelectSeq(cs, LAMBDA c : c.embedding.str)

\* _convert_pgvector_to_array: the components between the brackets, None for None
ConvertPgvectorToArray(e) == IF e.str THEN [of |-> e.of, dim |-> e.dim] ELSE EmptyEmbedding

\* _create_rag_chunk for every chunk handed to the chunk loop of
\* _save_to_database: ValueError when an embedding converts to nothing
CreateRagChunks(cs) ==
    LET arrays == [j \in 1..Len(cs) |-> ConvertPgvectorToArray(cs[j].embedding)]
    IN  IF \E j \in 1..Len(cs) : arrays[j] = EmptyEmbedding
        THEN [raised |-> TRUE, rows |-> <<>>]
        ELSE [raised |-> FALSE,
              rows |-> [j \in 1..Len(cs) |->
                          [chunk_index |-> cs[j].chunk_index, embedding |-> arrays[j]]]]

\* chunk lists: a pattern of texts, alone or repeated past one batch
ChunkList(pattern, n) ==
    [j \in 1..n |-> [chunk_index |-> j - 1,
                     content_text |-> pattern[((j - 1) % Len(pattern)) + 1],
                     embedding |-> NoEmbedding]]

InitChunkEmbed ==
    \E k \in 1..MaxPattern : \E pattern \in [1..k -> Texts] :
    \E n \in {k, EMBEDDING_BATCH_SIZE + k} :
    \E o \in [1..2 -> Outcomes] : \E c, service \in BOOLEAN :
        InitCall([fn |-> "generate_embeddings_for_chunks", chunks |-> ChunkList(pattern, n),
                  embedding_service |-> service, outcomes |-> o, client_ok |-> c])

CallGenerateEmbeddingsForChunks ==
    /\ args.fn = "generate_embeddings_for_chunks"
    /\ result = NoCall
    /\ result' = [fn |-> "embedded",
                  chunks |-> GenerateEmbeddingsForChunks(args.chunks, args.embedding_service,
                                                         args.outcomes, args.client_ok)]
    /\ UNCHANGED <<args, pipelineVars>>

CallValidateEmbeddings ==
    /\ result.fn = "embedded"
    /\ result' = [fn |-> "validated", chunks |-> result.chunks,
                  valid_chunks |-> ValidateEmbeddingsOf(result.chunks)]
    /\ UNCHANGED <<args, pipelineVars>>

\* process_single_content_item returns before step 7 when no chunk is valid
CallCreateRagChunks ==
    /\ result.fn = "validated"
    /\ result.valid_chunks # <<>>
    /\ result' = [fn |-> "saved", chunks |-> result.chunks,
                  valid_chunks |-> result.valid_chunks,
                  saved |-> CreateRagChunks(result.valid_chunks)]
    /\ UNCHANGED <<args, pipelineVars>>

NextChunkEmbed ==
    \/ CallGenerateEmbeddingsForChunks
    \/ CallValidateEmbeddings
    \/ CallCreateRagChunks

SpecChunkEmbed == InitChunkEmbed /\ [][NextChunkEmbed]_vars

\* the batch of generate_embeddings_for_chunks (counted from 1) of chunk j
ChunkBatchOf(j) == ((j - 1) \div EMBEDDING_BATCH_SIZE) + 1

\* C12: every chunk row written has an embedding of exactly
\* EMBEDDING_DIMENSIONS components; a chunk whose embedding is null is not
\* among the rows, and when a response holds one vector of another length
\* every chunk of that sub-batch is left without an embedding.
C12_StoredDimension ==
    /\ result.fn = "saved" =>
         /\ \A j \in 1..Len(result.saved.rows) :
               result.saved.rows[j].embedding.dim = EMBEDDING_DIMENSIONS
         /\ \A j \in 1..Len(result.chunks) :
               result.chunks[j].embedding = NoEmbedding =>
                   \A h \in 1..Len(result.saved.rows) :
                       result.saved.rows[h].chunk_index # result.chunks[j].chunk_index
    /\ result.fn \in {"embedded", "validated", "saved"} =>
         \A j \in 1..Len(result.chunks) :
             (args.embedding_service /\ args.outcomes[ChunkBatchOf(j)] = "dims") =>
                 result.chunks[j].embedding = NoEmbedding

\* a list of two batches: the response of one holds a short vector, the
\* chunks of the other are written
C12_Witness ==
    /\ result.fn = "saved"
    /\ args.client_ok
    /\ \E h \in 1..2 : args.outcomes[h] = "dims"
    /\ Len(result.saved.rows) > 0
    /\ Len(result.saved.rows) < Len(result.chunks)

----------------------------------------------------------------------------
(* Embedding and summarization failures of an item in the pipeline *)

\* chunk rows in storage written by the transaction of p for its current item
ChunkRowsOf(p) == {r.chunk_index : r \in {x \in db.chunks : x.doc = TxnId(p)}}

\* C13: an item some of whose chunks have no embedding is persisted with
\* exactly the chunks that have one, unless persistence itself fails; an
\* item none of whose chunks has an embedding ends failed with nothing written.
C13_PartialEmbeddings ==
    \A p \in Procs :
        (pc[p] = "item_done" /\ DOMAIN embedding[p] # {}) =>
            LET ok == {c \in DOMAIN embedding[p] : embedding[p][c] = "ok"}
            IN  /\ ok = {} =>
                     stage[p][i[p] + 1] = "failed" /\ WrittenBy(p) = {}
                /\ (ok # {} /\ exc[p] = "none" /\ ~hadDoc[p]) =>
                     /\ stage[p][i[p] + 1] = "persisted"
                     /\ success[p]
                     /\ ChunkRowsOf(p) = ok

C13_Witness ==
    \E p \in Procs :
        /\ pc[p] = "item_done" /\ stage[p][i[p] + 1] = "persisted"
        /\ \E c \in DOMAIN embedding[p] : embedding[p][c] = "null"
        /\ ChunkRowsOf(p) # {}
        /\ Cardinality(ChunkRowsOf(p)) < chunks[p]

\* C15: a summarization call that raises, for a section or for the document,
\* never fails the item: the item leaves the summarize stage as summarized,
\* and when its embeddings are valid and persistence does not fail it ends
\* persisted and is counted in documents_processed.
C15_SummaryFailureNotFatal ==
    /\ [][\A p \in Procs :
            (summary_errors'[p] # summary_errors[p] /\ summary_errors'[p] # {}) =>
                /\ stage'[p][i[p] + 1] \in {"summarized", "validated"}
                /\ exc'[p] = "none"
                /\ stats'[p] = stats[p]
         ]_vars
    /\ [](\A p \in Procs :
            (pc[p] = "item_done" /\ summary_errors[p] # {} /\ valid_chunks[p] # {}
                /\ exc[p] = "none" /\ ~hadDoc[p]) =>
                   /\ stage[p][i[p] + 1] = "persisted"
                   /\ success[p]
                   /\ stats[p].documents_failed = failedBefore[p]
                   /\ stats[p].documents_processed =
                          Cardinality({j \in DOMAIN stage[p] : stage[p][j] = "persisted"}))

C15_Witness ==
    \E p \in Procs :
        /\ pc[p] = "item_done" /\ summary_errors[p] = {"section", "document"}
        /\ stage[p][i[p] + 1] = "persisted"
        /\ stats[p].documents_processed >= 1
        /\ DocsOf(Item(p)) # {}

----------------------------------------------------------------------------
(* Text                                                                      *)
(* A string is a sequence of runs [c, n]: the character c repeated n times,  *)
(* neighbouring runs of different characters.  "A" is an upper-case letter,  *)
(* "a" any other character of a word, " " a blank, LF a line break, "." a    *)
(* sentence terminator.                                                      *)

Run(c, n) == [c |-> c, n |-> n]

LF == "\n"

Blank == {" ", LF}

\* len(text)
RECURSIVE TextLen(_)
TextLen(t) ==
    IF t = <<>> THEN 0
    ELSE IF Len(t) = 1 THEN t[1].n
    ELSE TextLen(SubSeq(t, 1, Len(t) \div 2)) + TextLen(SubSeq(t, Len(t) \div 2 + 1, Len(t)))

\* s + t
Concat(s, t) ==
    IF s = <<>> THEN t
    ELSE IF t = <<>> THEN s
    ELSE IF s[Len(s)].c = t[1].c
         THEN SubSeq(s, 1, Len(s) - 1) \o <<Run(t[1].c, s[Len(s)].n + t[1].n)>> \o Tail(t)
         ELSE s \o t

\* text[:k]
RECURSIVE Take(_, _)
Take(t, k) ==
    IF t = <<>> \/ k <= 0 THEN <<>>
    ELSE IF Head(t).n >= k THEN <<Run(Head(t).c, k)>>
    ELSE <<Head(t)>> \o Take(Tail(t), k - Head(t).n)

\* text[k:]
RECURSIVE Drop(_, _)
Drop(t, k) ==
    IF t = <<>> THEN <<>>
    ELSE IF k <= 0 THEN t
    ELSE IF Head(t).n > k THEN <<Run(Head(t).c, Head(t).n - k)>> \o Tail(t)
    ELSE Drop(Tail(t), k - Head(t).n)

\* text[a:b]
Slice(t, a, b) == Take(Drop(t, a), b - a)

\* text.strip()
RECURSIVE StripText(_)
StripText(t) ==
    IF t = <<>> THEN <<>>
    ELSE IF Head(t).c \in Blank THEN StripText(Tail(t))
    ELSE IF t[Len(t)].c \in Blank THEN StripText(SubSeq(t, 1, Len(t) - 1))
    ELSE t

\* the pieces of a list that are not empty once stripped, stripped
StrippedNonEmpty(pieces) ==
    SelectSeq([j \in 1..Len(pieces) |-> StripText(pieces[j])], LAMBDA x : x # <<>>)

\* text.rfind(' ', 0, end), for a text that starts at offset off: the index
\* of the last space below end, -1 when there is none
RECURSIVE RFindSpace(_, _, _)
RFindSpace(t, off, end) ==
    IF t = <<>> \/ off >= end THEN -1
    ELSE LET later == RFindSpace(Tail(t), off + Head(t).n, end)
         IN  IF later >= 0 THEN later
             ELSE IF Head(t).c = " "
                  THEN (IF off + Head(t).n < end THEN off + Head(t).n ELSE end) - 1
                  ELSE -1

\* text.endswith("...")
EndsWithMarker(t) == t # <<>> /\ t[Len(t)].c = "." /\ t[Len(t)].n >= 3

----------------------------------------------------------------------------
(* The Section Builder: create_sections_from_content and what it calls *)

MaxSegments == 3               \* segment rows of a content item
MaxParagraphs == 3             \* paragraphs of a document or post

SectionSplitChars == 2000      \* "Split if section getting too long"
SectionTargetChars == 1200     \* paragraphs accumulated into one document section
SegmentSeconds == 60           \* length of one segment of a timed source

None == -1                     \* None where a number is expected
NoText == <<>>                 \* None, or '', where a string is expected

SourceTypes == {"video", "audio", "external_content", "document", "social_post"}

\* separator.join(parts)
RECURSIVE JoinTexts(_, _)
JoinTexts(parts, sep) ==
    IF parts = <<>> THEN <<>>
    ELSE IF Len(parts) = 1 THEN parts[1]
    ELSE Concat(Concat(parts[1], sep), JoinTexts(Tail(parts), sep))

\* a sentence of the given words, the first one capitalised, closed by "."
RECURSIVE Words(_)
Words(lens) ==
    IF Len(lens) = 1 THEN <<Run("a", lens[1])>>
    ELSE <<Run("a", lens[1]), Run(" ", 1)>> \o Words(Tail(lens))

Sentence(lens) ==
    <<Run("A", 1)>> \o (IF lens[1] > 1 THEN <<Run("a", lens[1] - 1)>> ELSE <<>>)
        \o (IF Len(lens) > 1 THEN <<Run(" ", 1)>> \o Words(Tail(lens)) ELSE <<>>)
        \o <<Run(".", 1)>>

\* texts of segment rows: blank, and sentences short and long; one has a
\* space 100 characters after its start and 100 characters before its end
SegmentTexts ==
    {<<Run(" ", 2)>>, Sentence(<<400>>), Sentence(<<99, 601, 98>>),
     Sentence(<<1500>>), Sentence(<<1150, 400>>)}

\* paragraphs of a document: as above, and two lines parted by one line break
ParagraphTexts ==
    {<<Run(" ", 2)>>, Sentence(<<400>>), Sentence(<<400, 400>>), Sentence(<<1500>>),
     Concat(Concat(Sentence(<<400>>), <<Run(LF, 1)>>), Sentence(<<400>>))}

SectionTitles == {"", "t1"}

\* segment rows as stored: a timed source (video, audio, a transcribed
\* external item) has start_time and end_time, the first segment starting at
\* first_start; an external text has character positions
RECURSIVE TextLenSum(_)
TextLenSum(texts) == IF texts = <<>> THEN 0 ELSE TextLen(Head(texts)) + TextLenSum(Tail(texts))

SegmentRows(texts, titles, timing, first_start) ==
    [k \in 1..Len(texts) |->
        [segment_index |-> k - 1, text |-> texts[k], speaker |-> "",
         section_title |-> titles[k],
         start_time |-> IF timing = "time" THEN first_start + (k - 1) * SegmentSeconds ELSE None,
         end_time |-> IF timing = "time" THEN first_start + k * SegmentSeconds ELSE None,
         start_position |-> IF timing = "position"
                            THEN TextLenSum(SubSeq(texts, 1, k - 1)) ELSE None,
         end_position |-> IF timing = "position"
                          THEN TextLenSum(SubSeq(texts, 1, k)) ELSE None]]

\* "x if record.x else None": 0 and None both give None
Truthy(x) == IF x = None \/ x = 0 THEN None ELSE x

\* _get_segments_for_content: for video and audio the filter names a column
\* the segment model does not have (video_id, recording_id), the exception is
\* caught and the list stays empty; documents and posts have no segment model
GetSegmentsForContent(content_item) ==
    IF content_item.source_type # "external_content" THEN <<>>
    ELSE [k \in 1..Len(content_item.segments) |->
            [content_item.segments[k] EXCEPT
                !.start_time = Truthy(@), !.end_time = Truthy(@)]]

\* _should_split_section, for a current section that exists
ShouldSplitSection(current_section, segment, source_type) ==
    \/ source_type \in {"video", "audio"} /\ segment.speaker # current_section.speaker
    \/ /\ source_type = "external_content"
       /\ segment.section_title # ""
       /\ segment.section_title # current_section.section_title
    \/ /\ source_type \in {"video", "audio"}
       /\ Truthy(segment.start_time) # None /\ Truthy(current_section.end_time) # None
       /\ segment.start_time - current_section.end_time > 300
    \/ TextLen(JoinTexts(current_section.text_parts, <<Run(" ", 1)>>)) > SectionSplitChars

\* _finalize_section
FinalizeSection(section_data, section_index) ==
    LET content_text == JoinTexts(section_data.text_parts, <<Run(" ", 1)>>)
    IN  [section_index |-> section_index,
         title |-> section_data.section_title,
         section_type |-> IF section_data.speaker # "" THEN "speaker_turn"
                          ELSE IF section_data.section_title # "" THEN "titled_section"
                          ELSE "logical_section",
         content_text |-> content_text,
         speaker |-> section_data.speaker,
         start_time |-> section_data.start_time,
         end_time |-> section_data.end_time,
         start_position |-> section_data.start_position,
         end_position |-> section_data.end_position,
         character_count |-> TextLen(content_text),
         summary |-> NoText]

\* no current_section yet
NoSection == [text_parts |-> <<>>]

\* _create_sections_from_segments: the loop over the segments
RECURSIVE GroupSegments(_, _, _, _)
GroupSegments(segments, current_section, done, source_type) ==
    IF segments = <<>>
    THEN IF current_section # NoSection
         THEN Append(done, FinalizeSection(current_section, Len(done)))
         ELSE done
    ELSE LET segment == Head(segments)
             segment_text == StripText(segment.text)
         IN  IF segment_text = <<>>
             THEN GroupSegments(Tail(segments), current_section, done, source_type)
             ELSE IF current_section = NoSection
                     \/ ShouldSplitSection(current_section, segment, source_type)
             THEN GroupSegments(
                      Tail(segments),
                      [text_parts |-> <<segment_text>>, speaker |-> segment.speaker,
                       start_time |-> segment.start_time, end_time |-> segment.end_time,
                       start_position |-> segment.start_position,
                       end_position |-> segment.end_position,
                       section_title |-> segment.section_title],
                      IF current_section # NoSection
                      THEN Append(done, FinalizeSection(current_section, Len(done)))
                      ELSE done,
                      source_type)
             ELSE GroupSegments(
                      Tail(segments),
                      [current_section EXCEPT
                          !.text_parts = Append(@, segment_text),
                          !.end_time = segment.end_time,
                          !.end_position = segment.end_position],
                      done, source_type)

\* _create_sections_from_segments
CreateSectionsFromSegments(content_item) ==
    GroupSegments(GetSegmentsForContent(content_item), NoSection, <<>>,
                  content_item.source_type)

\* text.split(separator) for a separator of min_breaks line breaks: the
\* pieces between runs of at least that many; what is left of a run stays
\* at the head of the next piece
RECURSIVE SplitOnBreaks(_, _, _)
SplitOnBreaks(t, piece, min_breaks) ==
    LET breaks == {k \in 1..Len(t) : t[k].c = LF /\ t[k].n >= min_breaks}
    IN  IF breaks = {} THEN <<piece \o t>>
        ELSE LET k == CHOOSE b \in breaks :
                          Cardinality({x \in breaks : x < b}) = Cardinality(breaks) \div 2
             IN  SplitOnBreaks(SubSeq(t, 1, k - 1), piece, min_breaks)
                    \o SplitOnBreaks(SubSeq(t, k + 1, Len(t)),
                                     IF t[k].n % min_breaks > 0
                                     THEN <<Run(LF, t[k].n % min_breaks)>> ELSE <<>>,
                                     min_breaks)

\* a section that carries the number of characters before it as its index
TextSectionByOffset(section_index, section_type, text) ==
    [section_index |-> section_index * SectionTargetChars, title |-> "",
     section_type |-> section_type, content_text |-> text, speaker |-> "",
     start_time |-> None, end_time |-> None, start_position |-> None,
     end_position |-> None, character_count |-> TextLen(text), summary |-> NoText]

\* a section of a document or post: no speaker, no time, no position, and no
\* title (_extract_section_title wants a first line under 100 characters,
\* every line of ParagraphTexts is longer)
TextSection(section_index, section_type, text) ==
    [section_index |-> section_index, title |-> "", section_type |-> section_type,
     content_text |-> text, speaker |-> "", start_time |-> None, end_time |-> None,
     start_position |-> None, end_position |-> None,
     character_count |-> TextLen(text), summary |-> NoText]

\* _split_text_by_boundaries: the loop over the paragraphs
RECURSIVE AccumulateParagraphs(_, _, _)
AccumulateParagraphs(paragraphs, current_section_text, done) ==
    IF paragraphs = <<>>
    THEN IF current_section_text # <<>>
         THEN Append(done, TextSection(Len(done), "document_section", current_section_text))
         ELSE done
    ELSE LET potential_text ==
                 IF current_section_text # <<>>
                 THEN Concat(Concat(current_section_text, <<Run(LF, 2)>>), Head(paragraphs))
                 ELSE Head(paragraphs)
         IN  IF TextLen(potential_text) > SectionTargetChars /\ current_section_text # <<>>
             THEN AccumulateParagraphs(
                      Tail(paragraphs), Head(paragraphs),
                      Append(done, TextSection(Len(done), "document_section",
                                               current_section_text)))
             ELSE AccumulateParagraphs(Tail(paragraphs), potential_text, done)

\* the whole text as one section, whatever its length
SplitTextAsOneSection(text) == <<TextSection(0, "document_section", text)>>

\* _split_text_by_boundaries
SplitTextByBoundaries(text) ==
    LET by_paragraph == StrippedNonEmpty(SplitOnBreaks(text, <<>>, 2))
        paragraphs == IF by_paragraph = <<>>
                      THEN StrippedNonEmpty(SplitOnBreaks(text, <<>>, 1))
                      ELSE by_paragraph
    IN  AccumulateParagraphs(paragraphs, <<>>, <<>>)

\* _create_sections_from_text
CreateSectionsFromText(content_item) ==
    LET text == StripText(content_item.content_text)
    IN  IF text = <<>> THEN <<>>
        ELSE IF content_item.source_type = "social_post"
             THEN <<TextSection(0, "social_post", text)>>
        ELSE SplitTextByBoundaries(text)

\* create_sections_from_content
CreateSectionsFromContent(content_item) ==
    IF content_item.source_type \in {"video", "audio", "external_content"}
    THEN CreateSectionsFromSegments(content_item)
    ELSE CreateSectionsFromText(content_item)

\* content items: a segmented source with its rows, or a text

\* transcript and audio segments have times and a speaker and no title; a
\* segment listed in gaps starts ten minutes after the end of the one before
Speakers == {"s1", "s2"}

TimedItems ==
    {[source_type |-> st, content_text |-> <<>>,
      segments |->
        LET rows == SegmentRows(x.texts, [k \in DOMAIN x.texts |-> ""], "time", x.first_start)
            shift(k) == 10 * SegmentSeconds * Cardinality({g \in x.gaps : g <= k})
        IN  [k \in DOMAIN rows |->
                [rows[k] EXCEPT !.speaker = x.speakers[k],
                                !.start_time = @ + shift(k),
                                !.end_time = @ + shift(k)]]] :
        st \in {"video", "audio"},
        x \in UNION {[texts : [1..n -> {<<Run(" ", 2)>>, Sentence(<<400>>)}],
                      speakers : [1..n -> Speakers],
                      gaps : SUBSET (2..n), first_start : {0, 5}] :
                        n \in 0..MaxSegments}}

\* external content segments have times or positions, and may have a title
ExternalItems ==
    {[source_type |-> "external_content", content_text |-> <<>>,
      segments |-> SegmentRows(x.texts, x.titles, x.timing, x.first_start)] :
        x \in UNION {[texts : [1..n -> SegmentTexts], titles : [1..n -> SectionTitles],
                      timing : {"time", "position"}, first_start : {0, 5}] :
                        n \in 0..MaxSegments}}

SegmentedItems == TimedItems \cup ExternalItems

\* a text of count sentences of 52 characters with the period (ten words of
\* four or five letters), parted by one space: 100 of them are 1000 words in
\* 5299 characters; the letters and inner spaces of a sentence are written as
\* one run, the packing of sentences only measures their length
TenWordSentences(count) ==
    [k \in 1..(4 * count - 1) |->
        IF k % 4 = 1 THEN Run("A", 1)
        ELSE IF k % 4 = 2 THEN Run("a", 50)
        ELSE IF k % 4 = 3 THEN Run(".", 1)
        ELSE Run(" ", 1)]

TextItems ==
    {[source_type |-> st, content_text |-> JoinTexts(x.paragraphs, <<Run(LF, x.breaks)>>),
      segments |-> <<>>] :
        st \in {"document", "social_post"},
        x \in UNION {[paragraphs : [1..n -> ParagraphTexts], breaks : {1, 2}] :
                        n \in 0..MaxParagraphs}}
    \cup {[source_type |-> "document", content_text |-> TenWordSentences(100),
           segments |-> <<>>]}

----------------------------------------------------------------------------
(* The Chunker: create_chunks_from_sections and what it calls *)

TOKEN_MAX == 350
SplitPieceChars == 800         \* _split_by_length(text, 800)

\* _estimate_tokens
EstimateTokens(t) == IF TextLen(t) \div 4 > 1 THEN TextLen(t) \div 4 ELSE 1

\* the text after its leading blanks
RECURSIVE SkipBlank(_)
SkipBlank(t) == IF t # <<>> /\ Head(t).c \in Blank THEN SkipBlank(Tail(t)) ELSE t

\* re.split on [.!?]+\s+(?=[A-Z])|[.!?]+$ : the pieces between the matches
RECURSIVE SplitOnSentenceEndings(_, _)
SplitOnSentenceEndings(t, piece) ==
    LET Rest(k) == SubSeq(t, k + 1, Len(t))
        endings == {k \in 1..Len(t) :
                       /\ t[k].c = "."
                       /\ \/ k = Len(t)
                          \/ /\ SkipBlank(Rest(k)) # Rest(k)
                             /\ SkipBlank(Rest(k)) # <<>>
                             /\ Head(SkipBlank(Rest(k))).c = "A"}
    IN  IF endings = {} THEN <<piece \o t>>
        ELSE LET k == CHOOSE e \in endings :
                          Cardinality({x \in endings : x < e}) = Cardinality(endings) \div 2
             IN  SplitOnSentenceEndings(SubSeq(t, 1, k - 1), piece)
                    \o (IF k = Len(t) THEN <<<<>>>>
                        ELSE SplitOnSentenceEndings(SkipBlank(Rest(k)), <<>>))

\* _split_by_length: the while loop from position start
RECURSIVE SplitByLengthFrom(_, _, _)
SplitByLengthFrom(text, start, max_chars) ==
    IF start >= TextLen(text) THEN <<>>
    ELSE LET end == start + max_chars
             found == RFindSpace(text, 0, end)
             break_point == IF found >= start THEN found ELSE -1
         IN  IF end >= TextLen(text) THEN <<StripText(Drop(text, start))>>
             ELSE IF break_point > start
                  THEN <<StripText(Slice(text, start, break_point))>>
                          \o SplitByLengthFrom(text, break_point + 1, max_chars)
                  ELSE <<StripText(Slice(text, start, end))>>
                          \o SplitByLengthFrom(text, end, max_chars)

\* _split_by_length
SplitByLength(text, max_chars) ==
    SelectSeq(SplitByLengthFrom(text, 0, max_chars), LAMBDA x : x # <<>>)

\* _split_into_sentences
SplitIntoSentences(text) ==
    LET cleaned_sentences == StrippedNonEmpty(SplitOnSentenceEndings(text, <<>>))
    IN  IF Len(cleaned_sentences) <= 1 THEN SplitByLength(text, SplitPieceChars)
        ELSE cleaned_sentences

\* a truncation that leaves the sentence as it is
TruncateNothing(text) == text

\* _truncate_to_token_limit
TruncateToTokenLimit(text) ==
    LET target_chars == TOKEN_MAX * 4
        truncated == Take(text, target_chars)
        last_space == RFindSpace(truncated, 0, target_chars)
    IN  IF TextLen(text) <= target_chars THEN text
        ELSE IF last_space * 10 > target_chars * 8
             THEN Concat(Take(truncated, last_space), <<Run(".", 3)>>)
             ELSE Concat(truncated, <<Run(".", 3)>>)

\* a time as a fraction of seconds; sections carry whole seconds
Time(n) == [num |-> n, den |-> 1]
NoTime == Time(None)

\* offset of run k of a text
RECURSIVE RunStart(_, _)
RunStart(t, k) == IF k <= 1 THEN 0 ELSE t[k - 1].n + RunStart(t, k - 1)

\* text.find(needle): the first offset at which needle occurs, -1 if none;
\* an occurrence starts with a run of text or ends its first run with one
FindText(text, needle) ==
    LET candidates ==
            {RunStart(text, k) : k \in 1..Len(text)} \cup
            {RunStart(text, k) + text[k].n - needle[1].n : k \in 1..Len(text)}
        hits == {k \in candidates :
                    k >= 0 /\ Slice(text, k, k + TextLen(needle)) = needle}
    IN  IF needle = <<>> THEN 0
        ELSE IF hits = {} THEN -1
        ELSE CHOOSE k \in hits : \A h \in hits : k <= h

\* _create_chunk_from_text; cut_from records the section the text came from
CreateChunkFromText(text, sentences, chunk_index, section_chunk_index, section) ==
    LET section_duration == section.end_time - section.start_time
        timed == /\ section.start_time # None /\ section.end_time # None
                 /\ section_duration > 0
        first == IF sentences # <<>> THEN TextLen(sentences[1]) ELSE 0
        whole == TextLen(section.content_text)
        chunk_start_in_section ==
            IF section.start_position # None THEN FindText(section.content_text, text)
            ELSE -1
    IN  [chunk_index |-> chunk_index,
         section_chunk_index |-> section_chunk_index,
         content_text |-> text,
         token_count |-> EstimateTokens(text),
         character_count |-> TextLen(text),
         context_before |-> NoText,
         context_after |-> NoText,
         start_time |-> IF timed
                        THEN [num |-> section.start_time * whole + first * section_duration,
                              den |-> whole]
                        ELSE NoTime,
         end_time |-> IF timed
                      THEN [num |-> section.start_time * whole
                                        + TextLen(text) * section_duration,
                            den |-> whole]
                      ELSE NoTime,
         start_position |-> IF chunk_start_in_section >= 0
                            THEN section.start_position + chunk_start_in_section ELSE None,
         end_position |-> IF chunk_start_in_section >= 0
                          THEN section.start_position + chunk_start_in_section + TextLen(text)
                          ELSE None,
         cut_from |-> section.section_index]

\* _split_text_into_chunks: the loop over the sentences and the last chunk
RECURSIVE PackSentences(_, _, _, _, _, _)
PackSentences(sentences, current_chunk_text, chunk_sentences, done, section, first_index) ==
    LET flushed ==
            IF current_chunk_text # <<>>
            THEN Append(done, CreateChunkFromText(current_chunk_text, chunk_sentences,
                                                  first_index + Len(done), Len(done), section))
            ELSE done
    IN  IF sentences = <<>> THEN flushed
        ELSE LET sentence == Head(sentences)
                 potential_text ==
                     IF current_chunk_text # <<>>
                     THEN Concat(Concat(current_chunk_text, <<Run(" ", 1)>>), sentence)
                     ELSE sentence
                 truncated == TruncateToTokenLimit(sentence)
             IN  IF EstimateTokens(potential_text) <= TOKEN_MAX
                 THEN PackSentences(Tail(sentences), potential_text,
                                    Append(chunk_sentences, sentence), done, section,
                                    first_index)
                 ELSE IF EstimateTokens(sentence) > TOKEN_MAX
                 THEN PackSentences(
                          Tail(sentences), <<>>, <<>>,
                          Append(flushed,
                                 CreateChunkFromText(truncated, <<truncated>>,
                                                     first_index + Len(flushed), Len(flushed),
                                                     section)),
                          section, first_index)
                 ELSE PackSentences(Tail(sentences), sentence, <<sentence>>, flushed, section,
                                    first_index)

\* a split that numbers the chunks of every section from 0
SplitTextIntoChunksFromZero(text, section, first_index) ==
    PackSentences(SplitIntoSentences(text), <<>>, <<>>, <<>>, section, 0)

\* _split_text_into_chunks
SplitTextIntoChunks(text, section, first_index) ==
    PackSentences(SplitIntoSentences(text), <<>>, <<>>, <<>>, section, first_index)

\* a chunker that makes one chunk of every sentence
CreateChunksBySentence(section, start_chunk_index) ==
    LET sentences == SplitIntoSentences(StripText(section.content_text))
    IN  [j \in 1..Len(sentences) |->
            CreateChunkFromText(TruncateToTokenLimit(sentences[j]), <<sentences[j]>>,
                                start_chunk_index + j - 1, j - 1, section)]

\* _create_chunks_from_section
CreateChunksFromSection(section, start_chunk_index) ==
    LET text == StripText(section.content_text)
    IN  IF text = <<>> THEN <<>>
        ELSE IF EstimateTokens(text) <= TOKEN_MAX
        THEN <<[chunk_index |-> start_chunk_index,
                section_chunk_index |-> 0,
                content_text |-> text,
                token_count |-> EstimateTokens(text),
                character_count |-> TextLen(text),
                context_before |-> NoText,
                context_after |-> NoText,
                start_time |-> Time(section.start_time),
                end_time |-> Time(section.end_time),
                start_position |-> section.start_position,
                end_position |-> section.end_position,
                cut_from |-> section.section_index]>>
        ELSE SplitTextIntoChunks(text, section, start_chunk_index)

\* create_chunks_from_sections: the loop over the sections
RECURSIVE ChunkSections(_, _)
ChunkSections(todo, done) ==
    IF todo = <<>> THEN done
    ELSE ChunkSections(Tail(todo), done \o CreateChunksFromSection(Head(todo), Len(done)))

CHUNK_OVERLAP == 100

\* text[-k:] if len(text) > k else text
LastChars(t, k) == IF TextLen(t) > k THEN Drop(t, TextLen(t) - k) ELSE t

\* text[:k] if len(text) > k else text
FirstChars(t, k) == IF TextLen(t) > k THEN Take(t, k) ELSE t

\* context windows that stay inside the section of the chunk
AddContextWithinSection(cs) ==
    [j \in 1..Len(cs) |->
        [cs[j] EXCEPT
            !.context_before =
                IF j > 1 /\ cs[j - 1].cut_from = cs[j].cut_from
                THEN StripText(LastChars(cs[j - 1].content_text, CHUNK_OVERLAP))
                ELSE @,
            !.context_after =
                IF j < Len(cs) /\ cs[j + 1].cut_from = cs[j].cut_from
                THEN StripText(FirstChars(cs[j + 1].content_text, CHUNK_OVERLAP))
                ELSE @]]

\* _add_context_windows
AddContextWindows(cs) ==
    [j \in 1..Len(cs) |->
        [cs[j] EXCEPT
            !.context_before =
                IF j > 1 THEN StripText(LastChars(cs[j - 1].content_text, CHUNK_OVERLAP))
                ELSE @,
            !.context_after =
                IF j < Len(cs)
                THEN StripText(FirstChars(cs[j + 1].content_text, CHUNK_OVERLAP))
                ELSE @]]

\* create_chunks_from_sections
CreateChunksFromSections(built) == AddContextWindows(ChunkSections(built, <<>>))

----------------------------------------------------------------------------
(* Steps 1 and 3 on one content item *)

InitContent ==
    \E item \in SegmentedItems \cup TextItems :
        InitCall([fn |-> "create_sections_from_content", content_item |-> item])

CallCreateSectionsFromContent ==
    /\ args.fn = "create_sections_from_content"
    /\ result = NoCall
    /\ result' = [fn |-> "sections", sections |-> CreateSectionsFromContent(args.content_item)]
    /\ UNCHANGED <<args, pipelineVars>>

\* process_single_content_item returns before step 3 when there is no section
CallCreateChunksFromSections ==
    /\ result.fn = "sections"
    /\ result.sections # <<>>
    /\ result' = [fn |-> "chunks", sections |-> result.sections,
                  chunks |-> CreateChunksFromSections(result.sections)]
    /\ UNCHANGED <<args, pipelineVars>>

\* a <= x <= b for whole seconds a, b and a fraction x
TimeBetween(a, x, b) == a * x.den <= x.num /\ x.num <= b * x.den

\* the fallback of _find_section_for_chunk without the clamp
EstimatedSectionUnclamped(chunk, n) == chunk.chunk_index \div (IF n > 1 THEN n ELSE 1)

\* the fallback of _find_section_for_chunk: estimate from the chunk index
EstimatedSection(chunk, n) ==
    LET chunks_per_section == IF n > 1 THEN n ELSE 1
        estimate == chunk.chunk_index \div chunks_per_section
    IN  IF estimate < n - 1 THEN estimate ELSE n - 1

\* _find_section_for_chunk: the loop from list index k on, then the fallback
RECURSIVE FindSectionFrom(_, _, _)
FindSectionFrom(chunk, built, k) ==
    IF k >= Len(built) THEN EstimatedSection(chunk, Len(built))
    ELSE LET section == built[k + 1]
         IN  IF /\ chunk.start_time # NoTime /\ section.start_time # None
                /\ TimeBetween(section.start_time, chunk.start_time, section.end_time)
             THEN k
             ELSE IF /\ chunk.start_position # None /\ section.start_position # None
                     /\ section.start_position <= chunk.start_position
                     /\ chunk.start_position <= section.end_position
             THEN k
             ELSE FindSectionFrom(chunk, built, k + 1)

FindSectionForChunk(chunk, built) == FindSectionFrom(chunk, built, 0)

\* _save_to_database, the rows of the sections and of the chunks: a section
\* row gets an id at the flush, a chunk row the id of the section found for it
SaveSectionsAndChunks(built, cs) ==
    LET rag_sections == [k \in 1..Len(built) |-> [id |-> k, section_index |-> built[k].section_index]]
    IN  [rag_sections |-> rag_sections,
         rag_chunks |->
            [k \in 1..Len(cs) |->
                LET section_idx == FindSectionForChunk(cs[k], built)
                IN  [chunk_index |-> cs[k].chunk_index,
                     section_idx |-> section_idx,
                     section_id |-> IF cs[k].section_chunk_index # None
                                       /\ section_idx < Len(rag_sections)
                                    THEN rag_sections[section_idx + 1].id
                                    ELSE None]]]

\* step 6 for the sections and chunks of the item
CallSaveToDatabase ==
    /\ result.fn = "chunks"
    /\ result' = [fn |-> "saved", sections |-> result.sections, chunks |-> result.chunks,
                  rows |-> SaveSectionsAndChunks(result.sections, result.chunks)]
    /\ UNCHANGED <<args, pipelineVars>>

NextContent ==
    \/ CallCreateSectionsFromContent
    \/ CallCreateChunksFromSections
    \/ CallSaveToDatabase

SpecContent == InitContent /\ [][NextContent]_vars

\* C16: the section_index values of the section list of a content item are
\* 0, 1, ..., n-1 in list order, whichever strategy built the list and
\* whether or not blank segments or paragraphs were skipped.
C16_SectionIndexContiguous ==
    result.fn \in {"sections", "chunks"} =>
        \A j \in 1..Len(result.sections) : result.sections[j].section_index = j - 1

\* a blank segment skipped in a list that yields two sections or more
C16_Witness ==
    /\ result.fn = "sections"
    /\ args.content_item.source_type = "external_content"
    /\ \E k \in 1..Len(args.content_item.segments) :
          /\ StripText(args.content_item.segments[k].text) = <<>>
          /\ k < Len(args.content_item.segments)
    /\ Len(result.sections) >= 2
    /\ result.sections[2].section_index = 1

\* the chunks cut from section k
ChunksOfSection(k) ==
    {j \in 1..Len(result.chunks) : result.chunks[j].cut_from = k}

\* C14: every chunk has token_count = max(1, characters div 4), and in every
\* section at most one chunk has a token_count above TOKEN_MAX, a chunk whose
\* text ends with the truncation marker "...".
C14_TokenLimit ==
    result.fn = "chunks" =>
        /\ \A j \in 1..Len(result.chunks) :
              /\ result.chunks[j].character_count = TextLen(result.chunks[j].content_text)
              /\ result.chunks[j].token_count =
                    IF result.chunks[j].character_count \div 4 > 1
                    THEN result.chunks[j].character_count \div 4 ELSE 1
        /\ \A k \in 0..(Len(result.sections) - 1) :
              LET over == {j \in ChunksOfSection(k) : result.chunks[j].token_count > TOKEN_MAX}
              IN  /\ Cardinality(over) <= 1
                  /\ \A j \in over : EndsWithMarker(result.chunks[j].content_text)

\* a sentence above the limit was cut to it and closed with the marker, in
\* a section that has another chunk
C14_Witness ==
    /\ result.fn = "chunks"
    /\ \E j \in 1..Len(result.chunks) :
          /\ EndsWithMarker(result.chunks[j].content_text)
          /\ result.chunks[j].token_count = TOKEN_MAX
          /\ Cardinality(ChunksOfSection(result.chunks[j].cut_from)) >= 2

\* the sum of character_count over a list of sections or chunks
RECURSIVE CharacterCountSum(_)
CharacterCountSum(list) ==
    IF list = <<>> THEN 0 ELSE Head(list).character_count + CharacterCountSum(Tail(list))

\* C17: the character counts of the chunk texts of a document, context
\* fields left out, add up to the character counts of its sections.
C17_CharactersPreserved ==
    result.fn = "chunks" =>
        CharacterCountSum(result.chunks) = CharacterCountSum(result.sections)

HasTimeRange(section) == section.start_time # None /\ section.end_time # None

HasPositionRange(section) == section.start_position # None /\ section.end_position # None

\* C18: every section the Section Builder produces has exactly one of the
\* two ranges populated, the time range for a timed source (video, audio) and
\* the position range for a text (document, social_post); an external item
\* has the one its segments carry.
C18_ExactlyOneRange ==
    result.fn \in {"sections", "chunks"} =>
        \A j \in 1..Len(result.sections) :
            LET section == result.sections[j]
                source_type == args.content_item.source_type
            IN  /\ HasTimeRange(section) # HasPositionRange(section)
                /\ source_type \in {"video", "audio"} => HasTimeRange(section)
                /\ source_type \in {"document", "social_post"} => HasPositionRange(section)

----------------------------------------------------------------------------
(* Step 2 on one section list: generate_section_summaries and what it calls *)

MaxSummarySections == 2        \* sections handed to one call

ShortContentChars == 200       \* "For very short content"
SummaryMaxChars == 300         \* "Ensure summary is reasonable length"
FallbackChars == 150           \* "Take first 150 characters"
FallbackMinChars == 100        \* a word boundary is used when it lies beyond

\* content.split('.')[0]
RECURSIVE BeforeFirstPeriod(_)
BeforeFirstPeriod(t) ==
    IF t = <<>> \/ Head(t).c = "." THEN <<>>
    ELSE <<Head(t)>> \o BeforeFirstPeriod(Tail(t))

\* len(content.split('.')) > 1
HasPeriod(t) == \E k \in 1..Len(t) : t[k].c = "."

\* section texts: short, a short first sentence before a long one, and
\* long first sentences with a space beyond 100 characters, before it, or none
SummaryTexts ==
    {Sentence(<<50>>),
     JoinTexts(<<Sentence(<<20, 20>>), Sentence(<<300>>)>>, <<Run(" ", 1)>>),
     Sentence(<<120, 120>>), Sentence(<<60, 200>>), Sentence(<<400>>),
     JoinTexts(<<Sentence(<<250>>), Sentence(<<50>>)>>, <<Run(" ", 1)>>)}

\* the text of a response of the model: characters of a summary
LlmSummary(chars) == <<Run("s", chars)>>

\* _generate_single_summary: the summary, or the exception of the API call
GenerateSingleSummary(section, outcome, llm_chars) ==
    LET content == StripText(section.content_text)
        summary == StripText(LlmSummary(llm_chars))
    IN  IF TextLen(content) < ShortContentChars
        THEN [raised |-> FALSE,
              summary |-> Concat(BeforeFirstPeriod(content), <<Run(".", 1)>>)]
        ELSE IF outcome = "error" THEN [raised |-> TRUE, summary |-> NoText]
        ELSE [raised |-> FALSE,
              summary |-> IF TextLen(summary) > SummaryMaxChars
                          THEN Concat(Take(summary, SummaryMaxChars - 3), <<Run(".", 3)>>)
                          ELSE summary]

\* _generate_fallback_summary
GenerateFallbackSummary(section) ==
    LET content == StripText(section.content_text)
        first == BeforeFirstPeriod(content)
        truncated == Take(content, FallbackChars)
        last_space == RFindSpace(truncated, 0, FallbackChars)
    IN  IF HasPeriod(content) /\ TextLen(first) < ShortContentChars
        THEN Concat(StripText(first), <<Run(".", 1)>>)
        ELSE IF TextLen(content) <= FallbackChars THEN content
        ELSE IF last_space > FallbackMinChars
             THEN Concat(Take(truncated, last_space), <<Run(".", 3)>>)
             ELSE Concat(truncated, <<Run(".", 3)>>)

\* generate_section_summaries: without a client the sections come back as
\* they are; otherwise each section gets the summary of the call, or the
\* fallback when the call raised
SummarizeSections(list, anthropic_client, outcomes, llm_chars) ==
    IF ~anthropic_client THEN list
    ELSE [j \in 1..Len(list) |->
            LET r == GenerateSingleSummary(list[j], outcomes[j], llm_chars)
            IN  [list[j] EXCEPT !.summary =
                    IF r.raised THEN GenerateFallbackSummary(list[j]) ELSE r.summary]]

InitSummaries ==
    \E n \in 1..MaxSummarySections : \E texts \in [1..n -> SummaryTexts] :
    \E client \in BOOLEAN : \E o \in [1..n -> {"ok", "error"}] :
    \E llm_chars \in {80, 400} :
        InitCall([fn |-> "generate_section_summaries",
                  sections |-> [j \in 1..n |-> TextSection(j - 1, "document_section", texts[j])],
                  anthropic_client |-> client, outcomes |-> o, llm_chars |-> llm_chars])

CallGenerateSectionSummaries ==
    /\ args.fn = "generate_section_summaries"
    /\ result = NoCall
    /\ result' = [fn |-> "summarized",
                  sections |-> SummarizeSections(args.sections, args.anthropic_client,
                                                 args.outcomes, args.llm_chars)]
    /\ UNCHANGED <<args, pipelineVars>>

NextSummaries == CallGenerateSectionSummaries

SpecSummaries == InitSummaries /\ [][NextSummaries]_vars

\* the summarization call of section j was not available or raised
SummaryCallFailed(j) ==
    \/ ~args.anthropic_client
    \/ /\ args.outcomes[j] = "error"
       /\ TextLen(StripText(args.sections[j].content_text)) >= ShortContentChars

\* the character of a text at offset k is a blank, or the text ends there
WordBoundaryAt(t, k) == k >= TextLen(t) \/ Slice(t, k, k + 1)[1].c \in Blank

\* C19: a section whose summarization call was unavailable or failed leaves
\* the summarize stage with a summary: its first sentence when that is under
\* 200 characters, otherwise a prefix of at most 150 characters of its text
\* that ends at a word boundary.
C19_FallbackSummary ==
    result.fn = "summarized" =>
        \A j \in 1..Len(result.sections) :
            SummaryCallFailed(j) =>
                LET content == StripText(args.sections[j].content_text)
                    first == BeforeFirstPeriod(content)
                    summary == result.sections[j].summary
                IN  /\ summary # NoText
                    /\ IF TextLen(first) < ShortContentChars
                       THEN summary = Concat(first, <<Run(".", 1)>>)
                       ELSE \E k \in 1..FallbackChars :
                               /\ Take(summary, k) = Take(content, k)
                               /\ WordBoundaryAt(content, k)
                               /\ TextLen(summary) <= k + 3

\* the sections, by list index, whose time or position range holds the start
\* of a chunk
SectionsHolding(chunk, built) ==
    {k \in 0..(Len(built) - 1) :
        \/ /\ chunk.start_time # NoTime /\ built[k + 1].start_time # None
           /\ built[k + 1].start_time * chunk.start_time.den <= chunk.start_time.num
           /\ chunk.start_time.num <= built[k + 1].end_time * chunk.start_time.den
        \/ /\ chunk.start_position # None /\ built[k + 1].start_position # None
           /\ built[k + 1].start_position <= chunk.start_position
           /\ chunk.start_position <= built[k + 1].end_position}

\* C20: for every chunk the resolver returns an index in 0..section_count-1:
\* the first section in document order whose time or position range holds the
\* chunk's start, and when there is none chunk_index // max(1, section_count)
\* clamped to the last section; so every chunk row of a document with at
\* least one section has a section reference.
C20_ResolverInRange ==
    result.fn = "saved" =>
        \A k \in 1..Len(result.chunks) :
            LET chunk == result.chunks[k]
                row == result.rows.rag_chunks[k]
                n == Len(result.sections)
                holding == SectionsHolding(chunk, result.sections)
            IN  /\ row.section_idx \in 0..(n - 1)
                /\ holding # {} =>
                      /\ row.section_idx \in holding
                      /\ \A h \in holding : row.section_idx <= h
                /\ holding = {} =>
                      \/ row.section_idx = chunk.chunk_index \div n
                      \/ row.section_idx = n - 1 /\ chunk.chunk_index \div n > n - 1
                /\ row.section_id # None
                /\ row.section_id = result.rows.rag_sections[row.section_idx + 1].id

\* a saved item with a chunk that a range resolves to a later section and a
\* chunk that no range holds, which the fallback resolves
C20_Witness ==
    /\ result.fn = "saved"
    /\ \E k \in 1..Len(result.chunks) :
          /\ SectionsHolding(result.chunks[k], result.sections) # {}
          /\ result.rows.rag_chunks[k].section_idx >= 1
    /\ \E j \in 1..Len(result.chunks) :
          /\ SectionsHolding(result.chunks[j], result.sections) = {}
          /\ result.rows.rag_chunks[j].section_id # None

\* C21: the section reference of every chunk row is the section whose text
\* the chunk was cut from, for every source type and any number of sections
\* and chunks.
C21_SectionOfOrigin ==
    result.fn = "saved" =>
        \A k \in 1..Len(result.chunks) :
            /\ result.rows.rag_chunks[k].section_idx = result.chunks[k].cut_from
            /\ result.rows.rag_chunks[k].section_id
                  = result.rows.rag_sections[result.chunks[k].cut_from + 1].id

\* C22: for a video or audio item a new section starts at every non-empty
\* segment whose speaker differs from the one before it or that starts more
\* than 300 seconds after it ended, and the segments of one section have one
\* speaker; two segments of one speaker ten minutes apart give two sections.
C22_SpeakerAndGapSplit ==
    (result.fn = "sections" /\ args.content_item.source_type \in {"video", "audio"}) =>
        LET NonEmpty(segment) == StripText(segment.text) # <<>>
            spoken == SelectSeq(args.content_item.segments, NonEmpty)
            starts == {k \in 2..Len(spoken) :
                          \/ spoken[k].speaker # spoken[k - 1].speaker
                          \/ spoken[k].start_time - spoken[k - 1].end_time > 300}
        IN  /\ spoken # <<>> => Len(result.sections) >= 1 + Cardinality(starts)
            /\ \A j \in 1..Len(result.sections) : result.sections[j].speaker \in Speakers

\* the paragraphs of a document text: its non-blank pieces between blank lines
ParagraphsOf(text) == StrippedNonEmpty(SplitOnBreaks(StripText(text), <<>>, 2))

\* C23: the sections of a document are its paragraphs in order, joined by a
\* blank line; a section ends exactly where the next paragraph would take it
\* above 1200 characters, so a section of several paragraphs has at most 1200
\* characters, and paragraphs that together stay under 1200 characters give
\* one section of type document_section.
C23_ParagraphAccumulation ==
    (result.fn = "sections" /\ args.content_item.source_type = "document") =>
        LET paragraphs == ParagraphsOf(args.content_item.content_text)
            built == result.sections
            m == Len(paragraphs)
            n == Len(built)
            Group(a, b) == JoinTexts(SubSeq(paragraphs, a, b), <<Run(LF, 2)>>)
        IN  /\ \E last \in [0..n -> 0..m] :
                  /\ last[0] = 0 /\ last[n] = m
                  /\ \A j \in 1..n :
                        /\ last[j - 1] < last[j]
                        /\ built[j].content_text = Group(last[j - 1] + 1, last[j])
                        /\ built[j].section_type = "document_section"
                        /\ last[j] - last[j - 1] > 1 =>
                              TextLen(built[j].content_text) <= SectionTargetChars
                        /\ j < n =>
                              TextLen(built[j].content_text) + 2
                                  + TextLen(paragraphs[last[j] + 1]) > SectionTargetChars
            /\ (m > 0 /\ TextLen(Group(1, m)) < SectionTargetChars) => n = 1

\* a document of three paragraphs: the first two make one section, the third
\* would take it above 1200 characters and starts the next
C23_Witness ==
    /\ result.fn = "sections" /\ args.content_item.source_type = "document"
    /\ Len(ParagraphsOf(args.content_item.content_text)) = 3
    /\ Len(result.sections) = 2
    /\ TextLen(result.sections[1].content_text) > TextLen(ParagraphsOf(args.content_item.content_text)[1])

\* the lines of a text: its non-blank pieces between line breaks
LinesOf(text) == StrippedNonEmpty(SplitOnBreaks(StripText(text), <<>>, 1))

\* C24: a non-empty document text without a blank line but with line breaks
\* is split into paragraphs at the line breaks, so its lines are accumulated
\* into the sections as separate paragraphs (joined by a blank line, and
\* parted where the next line would exceed 1200 characters).
C24_SingleNewlineFallback ==
    (/\ result.fn = "sections" /\ args.content_item.source_type = "document"
     /\ \A k \in DOMAIN StripText(args.content_item.content_text) :
           StripText(args.content_item.content_text)[k].c = LF =>
               StripText(args.content_item.content_text)[k].n = 1
     /\ Len(LinesOf(args.content_item.content_text)) > 1) =>
        LET lines == LinesOf(args.content_item.content_text)
        IN  result.sections = AccumulateParagraphs(lines, <<>>, <<>>)

\* C25: in the chunk list of a document the k-th chunk has chunk_index k,
\* counted from 0 across the sections, and section_chunk_index counts the
\* chunks of its own section from 0; no two chunks share a chunk_index, so
\* no selection of the chunks does, and the chunk rows keep the numbers.
C25_ChunkIndexSequential ==
    result.fn \in {"chunks", "saved"} =>
        /\ \A k \in 1..Len(result.chunks) :
              /\ result.chunks[k].chunk_index = k - 1
              /\ result.chunks[k].section_chunk_index =
                    Cardinality({j \in 1..(k - 1) :
                                    result.chunks[j].cut_from = result.chunks[k].cut_from})
        /\ \A j, k \in 1..Len(result.chunks) :
              j # k => result.chunks[j].chunk_index # result.chunks[k].chunk_index
        /\ result.fn = "saved" =>
              \A k \in 1..Len(result.chunks) :
                  result.rows.rag_chunks[k].chunk_index = k - 1

\* two sections of two or more chunks each: the second section's chunks go on
\* counting chunk_index and start section_chunk_index again
C25_Witness ==
    /\ result.fn = "saved"
    /\ \E k \in 3..Len(result.chunks) :
          /\ result.chunks[k].cut_from = 1
          /\ result.chunks[k].section_chunk_index = 1
          /\ result.chunks[k].chunk_index >= 3

\* the last characters of a text are those of the text s
EndsWithText(t, s) == TextLen(t) >= TextLen(s) /\ Drop(t, TextLen(t) - TextLen(s)) = s

\* C26: in a section above 350 estimated tokens the sentences are packed in
\* order; a chunk that is not a hard-truncated lone sentence and is followed
\* by another chunk of its section ends where appending the next sentence
\* would take it above 350 estimated tokens; the 1000-word section of 5299
\* characters in 10-word sentences gives 4 chunks.
C26_GreedyPacking ==
    result.fn = "chunks" =>
        /\ \A k \in 1..(Len(result.chunks) - 1) :
              LET chunk == result.chunks[k]
                  next == result.chunks[k + 1]
                  sentences ==
                      SplitIntoSentences(
                          StripText(result.sections[chunk.cut_from + 1].content_text))
                  cut == \E j \in 1..Len(sentences) :
                            /\ EstimateTokens(sentences[j]) > TOKEN_MAX
                            /\ chunk.content_text = TruncateToTokenLimit(sentences[j])
              IN  (chunk.cut_from = next.cut_from /\ ~cut) =>
                      \E j \in 2..Len(sentences) :
                          /\ EndsWithText(chunk.content_text, sentences[j - 1])
                          /\ \/ Take(next.content_text, TextLen(sentences[j])) = sentences[j]
                             \/ next.content_text = TruncateToTokenLimit(sentences[j])
                          /\ EstimateTokens(Concat(Concat(chunk.content_text, <<Run(" ", 1)>>),
                                                   sentences[j])) > TOKEN_MAX
        /\ \A j \in 1..Len(result.sections) :
              LET text == StripText(result.sections[j].content_text)
                  sentences == SplitIntoSentences(text)
                  InSection(chunk) == chunk.cut_from = j - 1
                  cut == SelectSeq(result.chunks, InSection)
                  texts == [k \in 1..Len(cut) |-> cut[k].content_text]
              IN  (/\ EstimateTokens(text) > TOKEN_MAX
                   /\ \A k \in 1..Len(sentences) : EstimateTokens(sentences[k]) <= TOKEN_MAX) =>
                      JoinTexts(texts, <<Run(" ", 1)>>) = JoinTexts(sentences, <<Run(" ", 1)>>)
        /\ args.content_item.content_text = TenWordSentences(100) =>
              Len(result.chunks) = 4

\* the 1000-word section has been chunked
C26_Witness ==
    /\ result.fn = "chunks"
    /\ args.content_item.content_text = TenWordSentences(100)
    /\ Len(result.sections) = 1
    /\ Len(result.chunks) = 4
    /\ TextLen(result.sections[1].content_text) = 5299

\* C27 as stated: context_before of every chunk but the first is exactly the
\* last 100 characters of the chunk before it (its whole text when shorter),
\* and context_after of every chunk but the last exactly the first 100
\* characters of the chunk after it.
C27_ExactWindows ==
    result.fn = "chunks" =>
        \A k \in 1..Len(result.chunks) :
            /\ k = 1 => result.chunks[k].context_before = NoText
            /\ k = Len(result.chunks) => result.chunks[k].context_after = NoText
            /\ k > 1 =>
                  result.chunks[k].context_before =
                      LET before == result.chunks[k - 1].content_text
                      IN  IF TextLen(before) > 100
                          THEN Drop(before, TextLen(before) - 100) ELSE before
            /\ k < Len(result.chunks) =>
                  result.chunks[k].context_after = Take(result.chunks[k + 1].content_text, 100)

\* C27, amended: after the stitching of the whole chunk list, context_before of every
\* chunk but the first is the last 100 characters of the chunk before it, or
\* fewer: its whole text when shorter, and without a blank the window starts
\* with; context_after of every chunk but the last is likewise the first 100
\* characters of the chunk after it, or fewer; this holds across sections;
\* the first chunk has no context_before, the last no context_after, and no
\* context is longer than 100 characters.
C27_ContextWindows ==
    result.fn = "chunks" =>
        \A k \in 1..Len(result.chunks) :
            LET chunk == result.chunks[k]
            IN  /\ k = 1 => chunk.context_before = NoText
                /\ k = Len(result.chunks) => chunk.context_after = NoText
                /\ k > 1 =>
                      LET before == result.chunks[k - 1].content_text
                          window == IF TextLen(before) > 100
                                    THEN Drop(before, TextLen(before) - 100) ELSE before
                      IN  /\ EndsWithText(before, chunk.context_before)
                          /\ chunk.context_before = SkipBlank(window)
                /\ k < Len(result.chunks) =>
                      LET after == result.chunks[k + 1].content_text
                          window == Take(after, 100)
                      IN  /\ Take(after, TextLen(chunk.context_after)) = chunk.context_after
                          /\ \/ chunk.context_after = window
                             \/ /\ window[Len(window)].c \in Blank
                                /\ chunk.context_after = SubSeq(window, 1, Len(window) - 1)
                /\ TextLen(chunk.context_before) <= 100
                /\ TextLen(chunk.context_after) <= 100

\* chunks of two sections: the later one has the last characters of the
\* earlier one as context_before, one fewer than 100 because the window
\* starts with a space, and the earlier one the first 99 of the later one
C27_Witness ==
    /\ result.fn = "chunks"
    /\ \E k \in 2..Len(result.chunks) :
          /\ result.chunks[k].cut_from # result.chunks[k - 1].cut_from
          /\ TextLen(result.chunks[k].context_before) = 99
          /\ TextLen(result.chunks[k - 1].context_after) = 99
          /\ TextLen(result.chunks[k - 1].content_text) > 100

\* a <= b for two times given as fractions
TimeLeq(a, b) == a.num * b.den <= b.num * a.den

\* C28: the chunks of a section with a time span that gives several chunks
\* have start_time and end_time inside the span of the section, start_time
\* not after end_time, and a later chunk of the section does not start
\* before an earlier one.
C28_InterpolatedTimes ==
    result.fn = "chunks" =>
        \A k \in 1..Len(result.chunks) :
            LET chunk == result.chunks[k]
                section == result.sections[chunk.cut_from + 1]
            IN  (/\ section.start_time # None /\ section.end_time # None
                 /\ section.end_time > section.start_time
                 /\ Cardinality(ChunksOfSection(chunk.cut_from)) > 1) =>
                    /\ chunk.start_time # NoTime /\ chunk.end_time # NoTime
                    /\ TimeLeq(Time(section.start_time), chunk.start_time)
                    /\ TimeLeq(chunk.end_time, Time(section.end_time))
                    /\ TimeLeq(chunk.start_time, chunk.end_time)
                    /\ \A j \in ChunksOfSection(chunk.cut_from) :
                          j > k => TimeLeq(chunk.start_time, result.chunks[j].start_time)

\* rows of a table that the run of p in progress committed
CommittedBy(p, rows, Txn(_)) == {r \in rows : Txn(r)[1] = p /\ Txn(r)[2] = run[p]}

\* C29: when a run has ended (here: without an interrupt), its counters
\* documents_processed, sections_created and chunks_created equal the numbers
\* of document, section and chunk rows that the run committed to storage,
\* also when the document of one of its items already existed.
C29_CountersMatchStorage ==
    \A p \in Procs :
        (pc[p] = "exit" /\ stage[p] # <<>> /\ interrupted[p] = "no") =>
            /\ stats[p].documents_processed
                  = Cardinality(CommittedBy(p, db.docs, LAMBDA r : r.id))
            /\ stats[p].sections_created
                  = Cardinality(CommittedBy(p, db.sections, LAMBDA r : r.doc))
            /\ stats[p].chunks_created
                  = Cardinality(CommittedBy(p, db.chunks, LAMBDA r : r.doc))

\* C30: a first run started with --resume, when no checkpoint exists, starts
\* at the first item of its work list: start_index is 0, and when the run
\* ends without an interrupt every source item was attempted.
C30_ResumeWithoutCheckpoint ==
    \A p \in Procs :
        (resume[p] /\ run[p] = 1 /\ pc[p] \notin {"start", "begin"}) =>
            /\ start_index[p] = 0
            /\ (pc[p] = "exit" /\ interrupted[p] = "no") =>
                  \A k \in DOMAIN source : k \in attempted[p]

====
